---- MODULE Spec2Model ----
(***************************************************************************)
(* OTP ledger, sliding-window rate limiter and OAuth state handshake of    *)
(* the Mimaht OTP server (server.js, routes/email-otp.js, phone-otp and    *)
(* google-oauth routes).                                                   *)
(*                                                                         *)
(* Time is counted in ticks of TimeUnit milliseconds; every Date.now()     *)
(* read returns the variable now.  The three in-memory Maps are functions  *)
(* whose DOMAIN is the set of keys present (Map.has), so Map.get of an     *)
(* absent key is "key not in DOMAIN".                                      *)
(***************************************************************************)
EXTENDS Integers, Sequences, FiniteSets, Bags, TLC

----------------------------------------------------------------------------
(* Bounds of the model *)

MaxTime == 3        \* the clock stops advancing at this tick
MaxTimers == 2      \* pending setTimeout callbacks of storeOTP
MaxSkew == 1        \* ticks the clock may advance between two Date.now() reads
MaxRateTime == 4    \* the tick at which the clock stops for the rate limiter
MaxCalls == 8       \* checkRateLimit calls in a run
MaxCallbacks == 2   \* OAuth callback requests waiting at an await
MaxSends == 5       \* codes the send routes store in a run
MaxInflight == 1    \* send requests waiting at an await
MaxRacers == 2      \* concurrent send requests for one email, waiting at an await
MaxRaceSends == 6   \* codes the concurrent send requests store in a run
MaxVerifiers == 2   \* verify requests waiting at the profiles lookup

----------------------------------------------------------------------------
(* Program constants, in ticks *)

TimeUnit == 5 * 60 * 1000

OTP_EXPIRY_TIME == (10 * 60 * 1000) \div TimeUnit

MAX_OTP_ATTEMPTS == 3

RATE_LIMIT_WINDOW == (15 * 60 * 1000) \div TimeUnit

MAX_REQUESTS_PER_WINDOW == 5

OAUTH_STATE_EXPIRY == (10 * 60 * 1000) \div TimeUnit

Emails == {"a@b.com"}

Codes == {"123456", "654321"}

Purposes == {"signin", "password-reset"}

\* keys of the rate-limit store
Identifiers == {"a@b.com", "c@d.com"}

\* values the state generator can return
StateTokens == {"st1", "st2"}

\* the state query parameter of a callback: a token, or missing
NoState == "missing"

RedirectTargets == {"https://mimaht.com/auth/callback"}

----------------------------------------------------------------------------
VARIABLES
    now,        \* the value Date.now() returns
    otpStore,   \* Map email -> otpData
    timers,     \* bag of pending setTimeout callbacks scheduled by storeOTP
    issued,     \* history: per email, its last storeOTP call
    hist,       \* history: per email, the verifyOTP calls since its last storeOTP
    rateLimitStore, \* Map identifier -> array of admitted timestamps
    rateLog,    \* history: per identifier, every checkRateLimit call and its verdict
    env,        \* which of GOOGLE_CLIENT_ID and GOOGLE_CLIENT_SECRET are set
    oauthStates,    \* Map state -> stateStore
    pending,    \* the callback requests waiting at an await: position and stateData
    answered,   \* the last callback request that was answered, and its response
    issuedAt,   \* history: per state token, when it was last stored
    consumed,   \* history: tokens a callback has taken out and that were not stored again
    app,        \* which router the process serves: its Maps are otpStore and rateLimitStore
    inflight,   \* the send requests waiting at an await
    lastReq,    \* history: the last step a send handler took, and its response if any
    signedIn,   \* history: the codes a verify route has accepted since they were issued
    lastAns     \* history: the last response of a verify or password-reset route

vars == <<now, otpStore, timers, issued, hist, rateLimitStore, rateLog,
          env, oauthStates, pending, answered, issuedAt, consumed,
          app, inflight, lastReq, signedIn, lastAns>>

ledgerVars == <<otpStore, timers, issued, hist>>

limiterVars == <<rateLimitStore, rateLog>>

handshakeVars == <<env, oauthStates, pending, answered, issuedAt, consumed>>

routeVars == <<app, inflight, lastReq, signedIn, lastAns>>

----------------------------------------------------------------------------
(* Map helpers *)

MapSet(m, k, v) == [x \in (DOMAIN m) \cup {k} |-> IF x = k THEN v ELSE m[x]]

MapDelete(m, k) == [x \in (DOMAIN m) \ {k} |-> m[x]]

EmptyMap == [x \in {} |-> 0]

----------------------------------------------------------------------------
(* checkRateLimit *)

\* rateLimitStore.get(identifier) || []
StoredRequests(store, identifier) ==
    IF identifier \in DOMAIN store THEN store[identifier] ELSE <<>>

\* mutation: a timestamp exactly one window old is kept
InWindow_ge(timestamp, windowStart) == timestamp >= windowStart

\* requests.filter(timestamp => timestamp > windowStart)
InWindow(timestamp, windowStart) == timestamp > windowStart

Prune(requests, windowStart) == SelectSeq(requests, LAMBDA ts : InWindow(ts, windowStart))

\* mutation: the cap is tested with > instead of >=
AtCap_gt(requests) == Len(requests) > MAX_REQUESTS_PER_WINDOW

\* requests.length >= MAX_REQUESTS_PER_WINDOW
AtCap(requests) == Len(requests) >= MAX_REQUESTS_PER_WINDOW

\* mutation: a rejected call is recorded too
checkRateLimit_recordAll(store, identifier, t) ==
    LET windowStart == t - RATE_LIMIT_WINDOW
        requests == Prune(StoredRequests(store, identifier), windowStart)
    IN  [store |-> MapSet(store, identifier, Append(requests, t)), ret |-> ~AtCap(requests)]

\* the whole function: the store it leaves and the verdict it returns
checkRateLimit(store, identifier, t) ==
    LET windowStart == t - RATE_LIMIT_WINDOW
        requests == Prune(StoredRequests(store, identifier), windowStart)
    IN  IF AtCap(requests)
        THEN [store |-> store, ret |-> FALSE]
        ELSE [store |-> MapSet(store, identifier, Append(requests, t)), ret |-> TRUE]

----------------------------------------------------------------------------
(* OAuth state handshake *)

\* now - stateData.timestamp > OAUTH_STATE_EXPIRY
StateExpired(stateData, t) == t - stateData.timestamp > OAUTH_STATE_EXPIRY

cleanupOAuthStates(states, t) ==
    [st \in {x \in DOMAIN states : ~StateExpired(states[x], t)} |-> states[st]]

\* global.oauthStates.set(state, stateStore); cleanupOAuthStates()
beginHandshake(states, state, redirectTo, t) ==
    cleanupOAuthStates(MapSet(states, state, [redirectTo |-> redirectTo, timestamp |-> t]), t)

\* global.oauthStates.has(state)
StateKnown(states, state) == state \in DOMAIN states

\* mutation: the state is left in the store
ConsumeState_keep(states, state) == states

\* global.oauthStates.delete(state)
ConsumeState(states, state) == MapDelete(states, state)

\* the synchronous head of the callback handler, up to its first await: the
\* state store it leaves, the stateData it read, and either the redirect it
\* answers with or the token request it sends to the provider
callbackHead(states, e, googleError, hasCode, state) ==
    IF googleError \/ ~hasCode \/ state = NoState \/ ~StateKnown(states, state)
    THEN [states |-> states, matched |-> FALSE, redirectTo |-> "",
          pc |-> "done", response |-> "error_redirect"]
    ELSE IF ~e.clientId \/ ~e.clientSecret
    THEN [states |-> ConsumeState(states, state), matched |-> TRUE,
          redirectTo |-> states[state].redirectTo,
          pc |-> "done", response |-> "error_redirect"]
    ELSE [states |-> ConsumeState(states, state), matched |-> TRUE,
          redirectTo |-> states[state].redirectTo,
          pc |-> "token", response |-> "pending"]

----------------------------------------------------------------------------
(* storeOTP *)

\* mutation: the new record starts with one attempt used
NewOtpData_used(otp, purpose, t1, t2) ==
    [otp |-> otp, purpose |-> purpose, attempts |-> 1,
     createdAt |-> t1, expiresAt |-> t2 + OTP_EXPIRY_TIME, verified |-> FALSE]

\* the record storeOTP builds; t1 and t2 are its two Date.now() reads
NewOtpData(otp, purpose, t1, t2) ==
    [otp |-> otp, purpose |-> purpose, attempts |-> 0,
     createdAt |-> t1, expiresAt |-> t2 + OTP_EXPIRY_TIME, verified |-> FALSE]

\* mutation: a record that is already stored is not overwritten
storeOTP_ifAbsent(store, email, otp, purpose, t1, t2) ==
    IF email \in DOMAIN store THEN store
    ELSE MapSet(store, email, NewOtpData(otp, purpose, t1, t2))

\* otpStore.set(email, otpData)
storeOTP(store, email, otp, purpose, t1, t2) ==
    MapSet(store, email, NewOtpData(otp, purpose, t1, t2))

\* the callback handed to setTimeout: it remembers email and otp, and is due
\* OTP_EXPIRY_TIME after it was scheduled
NewTimer(email, otp, t) == [email |-> email, otp |-> otp, due |-> t + OTP_EXPIRY_TIME]

\* mutation: the callback does not compare the code
TimerHits_anyCode(store, tm) == tm.email \in DOMAIN store

\* if (otpStore.get(email)?.otp === otp) otpStore.delete(email)
TimerHits(store, tm) == tm.email \in DOMAIN store /\ store[tm.email].otp = tm.otp

\* mutation: the callback deletes nothing
expiryCallback_skip(store, tm) == store

\* the setTimeout callback of storeOTP
expiryCallback(store, tm) ==
    IF TimerHits(store, tm) THEN MapDelete(store, tm.email) ELSE store

----------------------------------------------------------------------------
(* verifyOTP *)

NoPurpose == "none"

NoRemaining == -1

Ret(isValid, error, remaining, purpose) ==
    [isValid |-> isValid, error |-> error, remaining |-> remaining, purpose |-> purpose]

\* mutation: a missing record is reported as expired
RetNotFound_expired == Ret(FALSE, "expired", NoRemaining, NoPurpose)

\* { isValid: false, error: 'OTP not found or expired. ...' }
RetNotFound == Ret(FALSE, "not_found", NoRemaining, NoPurpose)

RetExpired == Ret(FALSE, "expired", NoRemaining, NoPurpose)

RetTooMany == Ret(FALSE, "too_many_attempts", NoRemaining, NoPurpose)

RetInvalid(remaining) == Ret(FALSE, "invalid_otp", remaining, NoPurpose)

RetValid(purpose) == Ret(TRUE, "none", NoRemaining, purpose)

\* mutation: the expiry test is missing
IsExpired_never(otpData, t) == FALSE

\* Date.now() > otpData.expiresAt
IsExpired(otpData, t) == t > otpData.expiresAt

\* mutation: the limit is tested with > instead of >=
AttemptsExhausted_gt(otpData) == otpData.attempts > MAX_OTP_ATTEMPTS

\* otpData.attempts >= MAX_OTP_ATTEMPTS
AttemptsExhausted(otpData) == otpData.attempts >= MAX_OTP_ATTEMPTS

\* mutation: a record already marked verified no longer counts attempts
CountAttempt_unlessVerified(otpData) ==
    IF otpData.verified THEN otpData ELSE [otpData EXCEPT !.attempts = @ + 1]

\* otpData.attempts += 1
CountAttempt(otpData) == [otpData EXCEPT !.attempts = @ + 1]

\* mutation: the record is written back without the verified mark
MarkVerified_skip(otpData) == otpData

\* otpData.verified = true
MarkVerified(otpData) == [otpData EXCEPT !.verified = TRUE]

\* mutation: a consuming verify marks the record instead of deleting it
AcceptCode_keep(store, email, markAsUsed) ==
    MapSet(store, email, MarkVerified(store[email]))

\* markAsUsed ? otpStore.delete(email) : (otpData.verified = true, otpStore.set)
AcceptCode(store, email, markAsUsed) ==
    IF markAsUsed
    THEN MapDelete(store, email)
    ELSE MapSet(store, email, MarkVerified(store[email]))

\* mutation: a wrong code restarts the TTL of the record
verifyOTP_extend(store, email, enteredOTP, markAsUsed, t) ==
    IF email \notin DOMAIN store
    THEN [store |-> store, ret |-> RetNotFound]
    ELSE LET otpData == store[email] IN
         IF IsExpired(otpData, t)
         THEN [store |-> MapDelete(store, email), ret |-> RetExpired]
         ELSE IF AttemptsExhausted(otpData)
         THEN [store |-> MapDelete(store, email), ret |-> RetTooMany]
         ELSE IF otpData.otp # enteredOTP
         THEN LET counted == [CountAttempt(otpData) EXCEPT !.expiresAt = t + OTP_EXPIRY_TIME] IN
              [store |-> MapSet(store, email, counted),
               ret |-> RetInvalid(MAX_OTP_ATTEMPTS - counted.attempts)]
         ELSE [store |-> AcceptCode(store, email, markAsUsed),
               ret |-> RetValid(otpData.purpose)]

\* the whole function: the store it leaves and the value it returns
verifyOTP(store, email, enteredOTP, markAsUsed, t) ==
    IF email \notin DOMAIN store
    THEN [store |-> store, ret |-> RetNotFound]
    ELSE LET otpData == store[email] IN
         IF IsExpired(otpData, t)
         THEN [store |-> MapDelete(store, email), ret |-> RetExpired]
         ELSE IF AttemptsExhausted(otpData)
         THEN [store |-> MapDelete(store, email), ret |-> RetTooMany]
         ELSE IF otpData.otp # enteredOTP
         THEN LET counted == CountAttempt(otpData) IN
              [store |-> MapSet(store, email, counted),
               ret |-> RetInvalid(MAX_OTP_ATTEMPTS - counted.attempts)]
         ELSE [store |-> AcceptCode(store, email, markAsUsed),
               ret |-> RetValid(otpData.purpose)]

----------------------------------------------------------------------------
(* The other copies of verifyOTP: the two-argument function of the legacy  *)
(* half of email-otp.js and verifyPhoneOTP of the phone router             *)

\* the record the two-argument storeOTP of the legacy code writes:
\* { otp, attempts, createdAt, expiresAt }
LegacyFields == {"otp", "attempts", "createdAt", "expiresAt"}

LegacyRecord(otpData) == [f \in LegacyFields |-> otpData[f]]

LegacyStore(store) == [e \in DOMAIN store |-> LegacyRecord(store[e])]

\* mutation: the legacy function leaves an accepted code in the store
legacyVerifyOTP_keep(store, email, enteredOTP, t) ==
    IF email \notin DOMAIN store
    THEN [store |-> store, ret |-> Ret(FALSE, "not_found", NoRemaining, NoPurpose)]
    ELSE LET otpData == store[email] IN
         IF t > otpData.expiresAt
         THEN [store |-> MapDelete(store, email),
               ret |-> Ret(FALSE, "expired", NoRemaining, NoPurpose)]
         ELSE IF otpData.attempts >= MAX_OTP_ATTEMPTS
         THEN [store |-> MapDelete(store, email),
               ret |-> Ret(FALSE, "too_many_attempts", NoRemaining, NoPurpose)]
         ELSE IF otpData.otp # enteredOTP
         THEN LET counted == [otpData EXCEPT !.attempts = @ + 1] IN
              [store |-> MapSet(store, email, counted),
               ret |-> Ret(FALSE, "invalid_otp", MAX_OTP_ATTEMPTS - counted.attempts,
                           NoPurpose)]
         ELSE [store |-> store, ret |-> Ret(TRUE, "none", NoRemaining, NoPurpose)]

\* verifyOTP(email, enteredOTP) of the legacy code: an accepted code is
\* always deleted, and the value returned is { isValid: true }
legacyVerifyOTP(store, email, enteredOTP, t) ==
    IF email \notin DOMAIN store
    THEN [store |-> store, ret |-> Ret(FALSE, "not_found", NoRemaining, NoPurpose)]
    ELSE LET otpData == store[email] IN
         IF t > otpData.expiresAt
         THEN [store |-> MapDelete(store, email),
               ret |-> Ret(FALSE, "expired", NoRemaining, NoPurpose)]
         ELSE IF otpData.attempts >= MAX_OTP_ATTEMPTS
         THEN [store |-> MapDelete(store, email),
               ret |-> Ret(FALSE, "too_many_attempts", NoRemaining, NoPurpose)]
         ELSE IF otpData.otp # enteredOTP
         THEN LET counted == [otpData EXCEPT !.attempts = @ + 1] IN
              [store |-> MapSet(store, email, counted),
               ret |-> Ret(FALSE, "invalid_otp", MAX_OTP_ATTEMPTS - counted.attempts,
                           NoPurpose)]
         ELSE [store |-> MapDelete(store, email),
               ret |-> Ret(TRUE, "none", NoRemaining, NoPurpose)]

\* verifyPhoneOTP(phoneNumber, enteredOTP, markAsUsed) on phoneOtpStore
verifyPhoneOTP(phoneOtpStore, phoneNumber, enteredOTP, markAsUsed, t) ==
    IF phoneNumber \notin DOMAIN phoneOtpStore
    THEN [store |-> phoneOtpStore,
          ret |-> Ret(FALSE, "not_found", NoRemaining, NoPurpose)]
    ELSE LET otpData == phoneOtpStore[phoneNumber] IN
         IF t > otpData.expiresAt
         THEN [store |-> MapDelete(phoneOtpStore, phoneNumber),
               ret |-> Ret(FALSE, "expired", NoRemaining, NoPurpose)]
         ELSE IF otpData.attempts >= MAX_OTP_ATTEMPTS
         THEN [store |-> MapDelete(phoneOtpStore, phoneNumber),
               ret |-> Ret(FALSE, "too_many_attempts", NoRemaining, NoPurpose)]
         ELSE IF otpData.otp # enteredOTP
         THEN LET counted == [otpData EXCEPT !.attempts = @ + 1] IN
              [store |-> MapSet(phoneOtpStore, phoneNumber, counted),
               ret |-> Ret(FALSE, "invalid_otp", MAX_OTP_ATTEMPTS - counted.attempts,
                           NoPurpose)]
         ELSE IF markAsUsed
         THEN [store |-> MapDelete(phoneOtpStore, phoneNumber),
               ret |-> Ret(TRUE, "none", NoRemaining, otpData.purpose)]
         ELSE [store |-> MapSet(phoneOtpStore, phoneNumber,
                                [otpData EXCEPT !.verified = TRUE]),
               ret |-> Ret(TRUE, "none", NoRemaining, otpData.purpose)]

----------------------------------------------------------------------------
(* Identifiers of the routes: strings are sequences of one-character       *)
(* strings                                                                 *)

\* the upper-case letters the inputs use, and their lower-case forms
Lower == ("A" :> "a") @@ ("B" :> "b") @@ ("C" :> "c")

\* String.prototype.toLowerCase
toLowerCase(s) == [i \in 1..Len(s) |-> IF s[i] \in DOMAIN Lower THEN Lower[s[i]] ELSE s[i]]

\* \s of the inputs
IsSpace(c) == c = " "

RECURSIVE trimStart(_)
trimStart(s) == IF s # <<>> /\ IsSpace(Head(s)) THEN trimStart(Tail(s)) ELSE s

RECURSIVE trimEnd(_)
trimEnd(s) ==
    IF s # <<>> /\ IsSpace(s[Len(s)]) THEN trimEnd(SubSeq(s, 1, Len(s) - 1)) ELSE s

\* String.prototype.trim
trim(s) == trimEnd(trimStart(s))

\* email.toLowerCase().trim()
normalizeEmail(email) == trim(toLowerCase(email))

\* String.prototype.includes, for one character
includes(s, c) == \E i \in 1..Len(s) : s[i] = c

\* !email: undefined and the empty string are both falsy
Falsy(s) == s = <<>>

\* [^\s@]+ matches s[i..j]
PlainRun(s, i, j) == i <= j /\ \A k \in i..j : ~IsSpace(s[k]) /\ s[k] # "@"

\* /^[^\s@]+@[^\s@]+\.[^\s@]+$/.test(s)
emailRegexTest(s) ==
    \E i \in 1..Len(s), j \in 1..Len(s) :
        /\ s[i] = "@" /\ s[j] = "." /\ i < j
        /\ PlainRun(s, 1, i - 1) /\ PlainRun(s, i + 1, j - 1) /\ PlainRun(s, j + 1, Len(s))

Digits == {"0", "1", "2", "3", "4", "5", "6", "7", "8", "9"}

IsDigit(c) == c \in Digits

\* phoneNumber.replace(/\D/g, '')
cleanedDigits(phoneNumber) == SelectSeq(phoneNumber, IsDigit)

\* String.prototype.startsWith
startsWith(s, prefix) == Len(s) >= Len(prefix) /\ SubSeq(s, 1, Len(prefix)) = prefix

\* the three shapes both phone functions test, in their order
IsInternational(cleaned) == startsWith(cleaned, <<"5", "0", "9">>) /\ Len(cleaned) = 11

IsLeadingZero(cleaned) == startsWith(cleaned, <<"0", "9">>) /\ Len(cleaned) = 10

IsBare(cleaned) == startsWith(cleaned, <<"9">>) /\ Len(cleaned) = 9

isValidHaitianPhoneNumber(phoneNumber) ==
    LET cleaned == cleanedDigits(phoneNumber) IN
    IsInternational(cleaned) \/ IsLeadingZero(cleaned) \/ IsBare(cleaned)

\* the null that formatPhoneNumberForTwilio returns: falsy
NoPhone == <<>>

CountryPrefix == <<"+", "5", "0", "9">>

formatPhoneNumberForTwilio(phoneNumber) ==
    LET cleaned == cleanedDigits(phoneNumber) IN
    IF IsInternational(cleaned) THEN <<"+">> \o cleaned
    ELSE IF IsLeadingZero(cleaned) THEN CountryPrefix \o Tail(cleaned)
    ELSE IF IsBare(cleaned) THEN CountryPrefix \o cleaned
    ELSE NoPhone

----------------------------------------------------------------------------
(* The send and resend routes *)

ServerSendRoutes == {"/api/send-otp", "/api/send-reset-otp", "/api/resend-otp"}

EmailSendRoutes == {"/send-otp", "/send-reset-otp", "/resend-otp"}

PhoneSendRoutes == {"/send-phone-otp", "/resend-phone-otp"}

Apps == {"server.js", "email-otp.js", "phone-otp.js"}

SendRoutes(a) ==
    IF a = "server.js" THEN ServerSendRoutes
    ELSE IF a = "email-otp.js" THEN EmailSendRoutes
    ELSE IF a = "phone-otp.js" THEN PhoneSendRoutes
    ELSE {}

\* the routes that test emailRegex
RegexRoutes == {"/send-otp", "/send-reset-otp"}

\* the routes that read purpose from the request body
BodyPurposeRoutes == {"/api/resend-otp", "/resend-otp", "/resend-phone-otp", "/send-reset-otp"}

\* the body has no purpose field
NoBodyPurpose == "absent"

BodyPurposes == {NoBodyPurpose, "password-reset"}

\* the purpose the route hands to storeOTP
purposeOf(route, bodyPurpose) ==
    IF route = "/api/send-reset-otp" THEN "password-reset"
    ELSE IF route \notin BodyPurposeRoutes THEN "signin"
    ELSE IF bodyPurpose # NoBodyPurpose THEN bodyPurpose
    ELSE IF route = "/send-reset-otp" THEN "password_reset"
    ELSE "signin"

\* the argument the route hands to checkRateLimit
limiterKey(route, id) ==
    IF route = "/send-reset-otp" THEN id \o <<"_", "r", "e", "s", "e", "t">>
    ELSE IF route \in PhoneSendRoutes THEN <<"p", "h", "o", "n", "e", "_">> \o id
    ELSE id

NoStatus == 0

Reply(status, body) == [status |-> status, body |-> body]

NoReply == Reply(NoStatus, "none")

\* the checks a route makes on the identifier of the body, and the key it
\* derives from it
validate(route, input) ==
    IF route \in PhoneSendRoutes
    THEN IF Falsy(input)
         THEN [ok |-> FALSE, reply |-> Reply(400, "phone_required"), id |-> NoPhone]
         ELSE IF ~isValidHaitianPhoneNumber(input)
         THEN [ok |-> FALSE, reply |-> Reply(400, "invalid_haitian_number"), id |-> NoPhone]
         ELSE IF Falsy(formatPhoneNumberForTwilio(input))
         THEN [ok |-> FALSE, reply |-> Reply(400, "invalid_phone_format"), id |-> NoPhone]
         ELSE [ok |-> TRUE, reply |-> NoReply, id |-> formatPhoneNumberForTwilio(input)]
    ELSE IF Falsy(input) \/ ~includes(input, "@")
         THEN [ok |-> FALSE, reply |-> Reply(400, "email_required"), id |-> <<>>]
         ELSE IF route \in RegexRoutes /\ ~emailRegexTest(normalizeEmail(input))
         THEN [ok |-> FALSE, reply |-> Reply(400, "invalid_email_format"), id |-> <<>>]
         ELSE [ok |-> TRUE, reply |-> NoReply, id |-> normalizeEmail(input)]

\* the reply of a route whose dispatcher reported a failure
dispatchFailure(route) ==
    IF route = "/send-phone-otp" THEN Reply(400, "dispatch_failed")
    ELSE Reply(500, "dispatch_failed")

\* mutation: the code is generated and stored before the limiter is asked
issueStep_storeFirst(route, store, limits, id, purpose, otp, t1, t2) ==
    LET rl == checkRateLimit(limits, limiterKey(route, id), t1) IN
    [otpStore |-> storeOTP(store, id, otp, purpose, t1, t2),
     rateLimitStore |-> rl.store,
     admitted |-> rl.ret,
     calls |-> IF rl.ret THEN <<"generateOTP", "storeOTP", "checkRateLimit", "dispatch">>
               ELSE <<"generateOTP", "storeOTP", "checkRateLimit">>]

\* checkRateLimit, generateOTP, storeOTP and the call of the dispatcher, as
\* every send and resend route runs them without an await in between: the
\* Maps they leave and the calls made, in order
issueStep(route, store, limits, id, purpose, otp, t1, t2) ==
    LET rl == checkRateLimit(limits, limiterKey(route, id), t1) IN
    IF ~rl.ret
    THEN [otpStore |-> store, rateLimitStore |-> rl.store, admitted |-> FALSE,
          calls |-> <<"checkRateLimit">>]
    ELSE [otpStore |-> storeOTP(store, id, otp, purpose, t1, t2),
          rateLimitStore |-> rl.store, admitted |-> TRUE,
          calls |-> <<"checkRateLimit", "generateOTP", "storeOTP", "dispatch">>]

\* mutation: a failed dispatch takes the stored record back
afterDispatch_rollback(store, limits, r, ok) ==
    [otpStore |-> IF ok THEN store ELSE MapDelete(store, r.id), rateLimitStore |-> limits]

\* what the rest of a send handler, after the dispatcher answered, does to
\* the two Maps: it only builds the response
afterDispatch(store, limits, r, ok) == [otpStore |-> store, rateLimitStore |-> limits]

\* what the specification calls a well-formed identifier: an email that,
\* lower-cased and trimmed, matches the pattern; a phone number in one of the
\* three shapes
WellFormed(route, input) ==
    IF route \in PhoneSendRoutes THEN isValidHaitianPhoneNumber(input)
    ELSE emailRegexTest(normalizeEmail(input))

\* the record of a handler step kept for the properties: which request,
\* whether its identifier was well-formed, how far it got, the reply if it
\* sent one, the helper calls it made in order, and whether it changed the
\* OTP store or the rate-limit store
Step(r, input, step, reply, calls, touched) ==
    [route |-> r.route, wellFormed |-> WellFormed(r.route, input),
     step |-> step, reply |-> reply, calls |-> calls,
     id |-> r.id, otp |-> r.otp, purpose |-> r.purpose, at |-> r.at, touched |-> touched]

NoStep ==
    [route |-> "none", wellFormed |-> FALSE,
     step |-> "none", reply |-> NoReply, calls |-> <<>>,
     id |-> <<>>, otp |-> "none", purpose |-> "none", at |-> -1, touched |-> FALSE]

\* a request that stored nothing (yet)
Bare(route, id, purpose, pc) ==
    [route |-> route, id |-> id, purpose |-> purpose, pc |-> pc, otp |-> "none", at |-> -1]

\* a request whose code is stored and handed to the dispatcher
Issued(route, id, purpose, otp, t) ==
    [route |-> route, id |-> id, purpose |-> purpose, pc |-> "dispatch", otp |-> otp, at |-> t]

NoAnswer ==
    [route |-> "none", email |-> "none", reply |-> NoReply,
     purpose |-> NoPurpose, passwordChanged |-> FALSE, again |-> FALSE,
     malformed |-> FALSE, touched |-> FALSE]

----------------------------------------------------------------------------
(* History kept for the properties; the program never reads it.            *)
(*   issued[e]  the arguments of the last storeOTP(e, ...), the expiresAt  *)
(*              it computed, the code of the record it replaced (if one    *)
(*              was stored), and how many consuming verifyOTP calls have   *)
(*              returned valid since                                       *)
(*   hist[e]    the verifyOTP calls for e since its last storeOTP, as long *)
(*              as they follow one of the Scenarios, whether an expiry     *)
(*              timer has removed the record since, and, until the first   *)
(*              call, the state of the record the storeOTP replaced        *)

IssueInfo(store, email, otp, purpose, t2) ==
    [otp |-> otp, purpose |-> purpose, expiresAt |-> t2 + OTP_EXPIRY_TIME,
     replaced |-> IF email \in DOMAIN store THEN {store[email].otp} ELSE {},
     accepted |-> 0]

Letter(email, enteredOTP, markAsUsed) ==
    IF enteredOTP # issued[email].otp THEN "W"
    ELSE IF markAsUsed THEN "K" ELSE "C"

VerifyEvent(email, enteredOTP, markAsUsed, r) ==
    [letter |-> Letter(email, enteredOTP, markAsUsed),
     entered |-> enteredOTP,
     late |-> now > issued[email].expiresAt,
     ret |-> r.ret, stored |-> (email \in DOMAIN r.store)]

\* W: a code other than the issued one; C: the issued code, not consuming;
\* K: the issued code, consuming; *: any call
Scenarios ==
    { <<"W", "W", "W", "*">>,
      <<"W", "K", "K">>,
      <<"C", "K">>,
      <<"C", "W", "W", "W", "*">>,
      <<"K", "*">> }

Follows(evs, sc) ==
    /\ Len(evs) <= Len(sc)
    /\ \A i \in 1..Len(evs) : sc[i] = "*" \/ sc[i] = evs[i].letter

Untracked == [ok |-> FALSE, swept |-> FALSE, evs |-> <<>>, over |-> {}]

\* the history right after storeOTP(email, ...): no call yet, and what the
\* record it replaced looked like
Fresh(store, email) ==
    [ok |-> TRUE, swept |-> FALSE, evs |-> <<>>,
     over |-> IF email \in DOMAIN store
              THEN {[purpose |-> store[email].purpose, attempts |-> store[email].attempts,
                     verified |-> store[email].verified]}
              ELSE {}]

Logged(h, ev) ==
    IF h.ok /\ \E sc \in Scenarios : Follows(Append(h.evs, ev), sc)
    THEN [h EXCEPT !.evs = Append(@, ev), !.over = {}]
    ELSE Untracked

NoCallback ==
    [arrival |-> [neverIssued |-> FALSE, alreadyConsumed |-> FALSE, overdue |-> FALSE,
                  stored |-> FALSE, racing |-> FALSE],
     pc |-> "none", response |-> "none", exchanged |-> FALSE, left |-> FALSE]

----------------------------------------------------------------------------
Init ==
    /\ now = 0
    /\ otpStore = EmptyMap
    /\ timers = EmptyBag
    /\ issued = EmptyMap
    /\ hist = [e \in Emails |-> Untracked]
    /\ rateLimitStore = EmptyMap
    /\ rateLog = [k \in Identifiers |-> <<>>]
    /\ env = [loaded |-> FALSE, clientId |-> FALSE, clientSecret |-> FALSE]
    /\ oauthStates = EmptyMap
    /\ pending = EmptyBag
    /\ answered = NoCallback
    /\ issuedAt = EmptyMap
    /\ consumed = {}
    /\ app = "none"
    /\ inflight = {}
    /\ lastReq = NoStep
    /\ signedIn = {}
    /\ lastAns = NoAnswer

\* time passes, up to the tick max
Tick(max) ==
    /\ now < max
    /\ now' = now + 1
    /\ UNCHANGED <<ledgerVars, limiterVars, handshakeVars, routeVars>>

\* storeOTP(email, otp, purpose): d is the time that passes between the
\* Date.now() read of createdAt and the one of expiresAt
StoreOTP(email, otp, purpose, d) ==
    /\ BagCardinality(timers) < MaxTimers
    /\ now + d <= MaxTime
    /\ now' = now + d
    /\ otpStore' = storeOTP(otpStore, email, otp, purpose, now, now')
    /\ timers' = timers (+) SetToBag({NewTimer(email, otp, now')})
    /\ issued' = MapSet(issued, email, IssueInfo(otpStore, email, otp, purpose, now'))
    /\ hist' = [hist EXCEPT ![email] = Fresh(otpStore, email)]
    /\ UNCHANGED <<limiterVars, handshakeVars, routeVars>>

\* verifyOTP(email, enteredOTP, markAsUsed)
VerifyOTP(email, enteredOTP, markAsUsed) ==
    LET r == verifyOTP(otpStore, email, enteredOTP, markAsUsed, now) IN
    /\ otpStore' = r.store
    /\ IF email \in DOMAIN issued
       THEN /\ hist' = [hist EXCEPT ![email] =
                          Logged(@, VerifyEvent(email, enteredOTP, markAsUsed, r))]
            /\ issued' = [issued EXCEPT ![email].accepted =
                            IF r.ret.isValid /\ markAsUsed THEN @ + 1 ELSE @]
       ELSE UNCHANGED <<hist, issued>>
    /\ UNCHANGED <<now, timers, limiterVars, handshakeVars, routeVars>>

\* a setTimeout callback of storeOTP runs, at its due time or later
ExpiryTimer(tm) ==
    /\ BagIn(tm, timers)
    /\ now >= tm.due
    /\ otpStore' = expiryCallback(otpStore, tm)
    /\ timers' = timers (-) SetToBag({tm})
    /\ IF TimerHits(otpStore, tm)
       THEN hist' = [hist EXCEPT ![tm.email].swept = @ \/ hist[tm.email].ok]
       ELSE UNCHANGED hist
    /\ UNCHANGED <<now, issued, limiterVars, handshakeVars, routeVars>>

NextLedger ==
    \/ Tick(MaxTime)
    \/ \E e \in Emails, c \in Codes, p \in Purposes, d \in 0..MaxSkew : StoreOTP(e, c, p, d)
    \/ \E e \in Emails, c \in Codes, m \in BOOLEAN : VerifyOTP(e, c, m)
    \/ \E tm \in BagToSet(timers) : ExpiryTimer(tm)

SpecLedger == Init /\ [][NextLedger]_vars

\* the ledger with time passing and every scheduled timer firing: the clock
\* runs on for OTP_EXPIRY_TIME after the last storeOTP so that its timer
\* comes due, and does not move inside storeOTP; the purpose, which plays no
\* part in expiry, is the sign-in one
NextLedgerLive ==
    \/ Tick(MaxTime + OTP_EXPIRY_TIME)
    \/ \E e \in Emails, c \in Codes : StoreOTP(e, c, "signin", 0)
    \/ \E e \in Emails, c \in Codes, m \in BOOLEAN : VerifyOTP(e, c, m)
    \/ \E tm \in BagToSet(timers) : ExpiryTimer(tm)

SpecLedgerLive ==
    /\ Init /\ [][NextLedgerLive]_vars
    /\ WF_vars(Tick(MaxTime + OTP_EXPIRY_TIME))
    /\ WF_vars(\E tm \in BagToSet(timers) : ExpiryTimer(tm))

----------------------------------------------------------------------------
(* The rate limiter on its own *)

RECURSIVE CallsLogged(_)
CallsLogged(keys) ==
    IF keys = {} THEN 0
    ELSE LET k == CHOOSE x \in keys : TRUE IN Len(rateLog[k]) + CallsLogged(keys \ {k})

\* checkRateLimit(identifier)
CheckRateLimit(identifier) ==
    LET r == checkRateLimit(rateLimitStore, identifier, now) IN
    /\ CallsLogged(Identifiers) < MaxCalls
    /\ rateLimitStore' = r.store
    /\ rateLog' = [rateLog EXCEPT ![identifier] = Append(@, [at |-> now, ok |-> r.ret])]
    /\ UNCHANGED <<now, ledgerVars, handshakeVars, routeVars>>

NextLimiter ==
    \/ Tick(MaxRateTime)
    \/ \E k \in Identifiers : CheckRateLimit(k)

SpecLimiter == Init /\ [][NextLimiter]_vars

----------------------------------------------------------------------------
(* The OAuth handshake on its own *)

\* POST /api/auth/google: state is the token the generator returned
BeginHandshake(state, redirectTo) ==
    /\ env.loaded
    /\ env.clientId
    /\ oauthStates' = beginHandshake(oauthStates, state, redirectTo, now)
    /\ issuedAt' = MapSet(issuedAt, state, now)
    /\ consumed' = consumed \ {state}
    /\ UNCHANGED <<now, env, pending, answered, ledgerVars, limiterVars, routeVars>>

\* what the history records about a callback when it arrives: whether its
\* state was ever stored, was taken out since it was last stored, is older
\* than the expiry, is in the store, and whether another callback that took
\* the same state out (since it was last stored) is waiting at an await
Arrival(state) ==
    [neverIssued |-> state \notin DOMAIN issuedAt,
     alreadyConsumed |-> state \in consumed,
     overdue |-> (state \in DOMAIN issuedAt /\ now - issuedAt[state] > OAUTH_STATE_EXPIRY),
     stored |-> StateKnown(oauthStates, state),
     racing |-> (state \in consumed
                 /\ \E p \in BagToSet(pending) : p.state = state /\ p.exchanged)]

\* what is kept of a callback once it is answered
Answer(c) == [arrival |-> c.arrival, pc |-> c.pc, response |-> c.response,
              exchanged |-> c.exchanged, left |-> c.left]

\* GET /api/auth/google/callback, from the request to the first await
CallbackReceive(googleError, hasCode, state) ==
    LET h == callbackHead(oauthStates, env, googleError, hasCode, state)
        c == [state |-> state, arrival |-> Arrival(state), redirectTo |-> h.redirectTo,
              pc |-> h.pc, response |-> h.response, exchanged |-> (h.pc = "token"),
              left |-> StateKnown(h.states, state)]
    IN
    /\ env.loaded
    /\ oauthStates' = h.states
    /\ IF h.pc = "done"
       THEN answered' = Answer(c) /\ UNCHANGED pending
       ELSE /\ BagCardinality(pending) < MaxCallbacks
            /\ pending' = pending (+) SetToBag({c})
            /\ UNCHANGED answered
    /\ consumed' = IF h.matched THEN consumed \cup {state} ELSE consumed
    /\ UNCHANGED <<now, env, issuedAt, ledgerVars, limiterVars, routeVars>>

\* mutation: a failed or thrown answer is not caught
callbackStep_unhandled(c, ok) ==
    IF ~ok THEN [c EXCEPT !.pc = "done", !.response = "unhandled"]
    ELSE IF c.pc = "token" THEN [c EXCEPT !.pc = "userinfo"]
    ELSE IF c.pc = "userinfo" THEN [c EXCEPT !.pc = "directory"]
    ELSE [c EXCEPT !.pc = "done", !.response = "success_redirect"]

\* the position of a callback after the awaited answer arrived: the token
\* response, then the user info, then the directory calls; a failed or thrown
\* answer ends in the error redirect, the last good one in the redirect to
\* stateData.redirectTo
callbackStep(c, ok) ==
    IF ~ok THEN [c EXCEPT !.pc = "done", !.response = "error_redirect"]
    ELSE IF c.pc = "token" THEN [c EXCEPT !.pc = "userinfo"]
    ELSE IF c.pc = "userinfo" THEN [c EXCEPT !.pc = "directory"]
    ELSE [c EXCEPT !.pc = "done", !.response = "success_redirect"]

\* the callback handler c resumes after an await
CallbackResume(c, ok) ==
    LET d == callbackStep(c, ok) IN
    /\ BagIn(c, pending)
    /\ IF d.pc = "done"
       THEN answered' = Answer(d) /\ pending' = pending (-) SetToBag({c})
       ELSE pending' = (pending (-) SetToBag({c})) (+) SetToBag({d}) /\ UNCHANGED answered
    /\ UNCHANGED <<now, env, oauthStates, issuedAt, consumed, ledgerVars, limiterVars, routeVars>>

\* require('dotenv').config(): the process reads its environment once
LoadEnv(clientId, clientSecret) ==
    /\ ~env.loaded
    /\ env' = [loaded |-> TRUE, clientId |-> clientId, clientSecret |-> clientSecret]
    /\ UNCHANGED <<now, oauthStates, pending, answered, issuedAt, consumed,
                   ledgerVars, limiterVars, routeVars>>

NextHandshake ==
    \/ Tick(MaxTime)
    \/ \E st \in StateTokens, r \in RedirectTargets : BeginHandshake(st, r)
    \/ \E g \in BOOLEAN, c \in BOOLEAN, st \in StateTokens \cup {NoState} :
           CallbackReceive(g, c, st)
    \/ \E c \in BagToSet(pending), ok \in BOOLEAN : CallbackResume(c, ok)
    \/ \E id \in BOOLEAN, secret \in BOOLEAN : LoadEnv(id, secret)

SpecHandshake == Init /\ [][NextHandshake]_vars

\* time passes whatever the clients do; no request is ever bound to arrive,
\* and the program schedules no timer for the state store
SpecHandshakeLive == SpecHandshake /\ WF_vars(Tick(MaxTime))

----------------------------------------------------------------------------
(* The send and resend routes on their own.  The clock stands still here:  *)
(* expiry is examined with the ledger and ageing with the rate limiter.    *)

\* request bodies: the email field
EmailInputs ==
    { <<"a", "@", "b", ".", "c">>,
      <<" ", "A", "@", "b", ".", "c">>,
      <<"a", "@", "b">>,
      <<"a", "b">>,
      <<>> }

Subscriber == <<"1", "2", "3", "4", "5", "6", "7", "8">>

\* request bodies: the phoneNumber field
PhoneInputs ==
    { <<"+", "5", "0", "9">> \o Subscriber,
      <<"5", "0", "9", " ">> \o Subscriber,
      <<"0", "9">> \o Subscriber,
      <<"9">> \o Subscriber,
      Subscriber,
      <<>> }

\* values generateOTP returns while the send routes run
SendCodes == {"123456"}

SendInputs(a) == IF a = "phone-otp.js" THEN PhoneInputs ELSE EmailInputs

\* how many requests may wait at an await and how many codes may be stored
\* in a run
SendLoad == [inflight |-> MaxInflight, sends |-> MaxSends]

\* the process starts with one of the routers
Boot(a) ==
    /\ app = "none"
    /\ app' = a
    /\ UNCHANGED <<now, inflight, lastReq, signedIn, lastAns,
                   ledgerVars, limiterVars, handshakeVars>>

\* the limiter, the generator, the store and the dispatcher call of a send
\* handler, for the request q; req is the waiting request it replaces, if any
IssueAndDispatch(q, input, req, otp, step, load) ==
    LET s == issueStep(q.route, otpStore, rateLimitStore, q.id, q.purpose, otp, now, now)
        sent == Issued(q.route, q.id, q.purpose, otp, now)
        touched == s.otpStore # otpStore \/ s.rateLimitStore # rateLimitStore
    IN
    /\ otpStore' = s.otpStore
    /\ rateLimitStore' = s.rateLimitStore
    /\ IF s.admitted
       THEN /\ BagCardinality(timers) < load.sends
            /\ Cardinality(inflight \ req) < load.inflight
            /\ timers' = timers (+) SetToBag({NewTimer(q.id, otp, now)})
            /\ inflight' = (inflight \ req) \cup {sent}
            /\ lastReq' = Step(sent, input, step, NoReply, s.calls, touched)
       ELSE /\ inflight' = inflight \ req
            /\ lastReq' = Step(q, input, step, Reply(429, "rate_limited"), s.calls, touched)
            /\ UNCHANGED timers

\* a send or resend request arrives: the handler runs to its first await or
\* to its response
SendReceive(route, input, bodyPurpose, otp, load) ==
    LET v == validate(route, input)
        q == Bare(route, v.id, purposeOf(route, bodyPurpose), "directory")
    IN
    /\ route \in SendRoutes(app)
    /\ input \in SendInputs(app)
    /\ IF ~v.ok
       THEN /\ lastReq' = Step(q, input, "receive", v.reply, <<>>, FALSE)
            /\ UNCHANGED <<otpStore, rateLimitStore, timers, inflight>>
       ELSE IF route = "/send-reset-otp"
       THEN /\ Cardinality(inflight) < load.inflight
            /\ inflight' = inflight \cup {q}
            /\ lastReq' = Step(q, input, "receive", NoReply, <<"directory">>, FALSE)
            /\ UNCHANGED <<otpStore, rateLimitStore, timers>>
       ELSE IssueAndDispatch(q, input, {}, otp, "receive", load)
    /\ UNCHANGED <<now, app, signedIn, lastAns, issued, hist, rateLog, handshakeVars>>

\* the profiles lookup of /send-reset-otp answers; the request passed the
\* emailRegex test, and its normalized email stands for its input
DirectoryAnswer(r, found, otp, load) ==
    /\ r \in inflight
    /\ r.pc = "directory"
    /\ IF ~found
       THEN /\ inflight' = inflight \ {r}
            /\ lastReq' = Step(r, r.id, "directory", Reply(200, "if_account_exists"),
                               <<>>, FALSE)
            /\ UNCHANGED <<otpStore, rateLimitStore, timers>>
       ELSE IssueAndDispatch(r, r.id, {r}, otp, "directory", load)
    /\ UNCHANGED <<now, app, signedIn, lastAns, issued, hist, rateLog, handshakeVars>>

\* the dispatcher (Resend, Twilio) answers
DispatchAnswer(r, ok) ==
    LET s == afterDispatch(otpStore, rateLimitStore, r, ok) IN
    /\ r \in inflight
    /\ r.pc = "dispatch"
    /\ otpStore' = s.otpStore
    /\ rateLimitStore' = s.rateLimitStore
    /\ inflight' = inflight \ {r}
    /\ lastReq' = Step(r, r.id, "dispatch",
                       IF ok THEN Reply(200, "sent") ELSE dispatchFailure(r.route), <<>>,
                       s.otpStore # otpStore \/ s.rateLimitStore # rateLimitStore)
    /\ UNCHANGED <<now, timers, app, signedIn, lastAns, issued, hist, rateLog, handshakeVars>>

NextSend ==
    \/ \E a \in Apps : Boot(a)
    \/ \E route \in SendRoutes(app), input \in SendInputs(app), p \in BodyPurposes,
          c \in SendCodes : SendReceive(route, input, p, c, SendLoad)
    \/ \E r \in inflight, found \in BOOLEAN, c \in SendCodes :
           DirectoryAnswer(r, found, c, SendLoad)
    \/ \E r \in inflight, ok \in BOOLEAN : DispatchAnswer(r, ok)

SpecSend == Init /\ [][NextSend]_vars

----------------------------------------------------------------------------
(* Concurrent send and resend requests for one email in email-otp.js: the  *)
(* handlers interleave at their awaits (the profiles lookup and the        *)
(* dispatcher).  The clock stands still, so every admission is inside the  *)
(* window.                                                                 *)

\* two bodies that normalize to the same key; they carry no purpose field
RaceInputs == { <<"a", "@", "b", ".", "c">>, <<" ", "A", "@", "b", ".", "c">> }

RaceLoad == [inflight |-> MaxRacers, sends |-> MaxRaceSends]

NextRace ==
    \/ Boot("email-otp.js")
    \/ \E route \in SendRoutes(app), input \in RaceInputs, c \in Codes :
           SendReceive(route, input, NoBodyPurpose, c, RaceLoad)
    \/ \E r \in inflight, found \in BOOLEAN, c \in Codes :
           DirectoryAnswer(r, found, c, RaceLoad)
    \/ \E r \in inflight, ok \in BOOLEAN : DispatchAnswer(r, ok)

SpecRace == Init /\ [][NextRace]_vars

----------------------------------------------------------------------------
(* The verify and password-reset routes of server.js and email-otp.js.     *)
(* Their awaits (the Supabase calls) come after verifyOTP has run and      *)
(* nothing after them reads or writes the Maps, so each handler is one     *)
(* step whose Supabase outcomes are inputs.                                *)

AccountApps == {"server.js", "email-otp.js", "phone-otp.js"}

\* the purpose the reset send route of the router stores
ResetTag(a) == IF a = "server.js" THEN "password-reset" ELSE "password_reset"

VerifyRoutes(a) ==
    IF a = "server.js" THEN {"/api/verify-otp"}
    ELSE IF a = "email-otp.js" THEN {"/verify-otp", "/verify-reset-otp"}
    ELSE IF a = "phone-otp.js" THEN {"/verify-phone-otp"}
    ELSE {}

CompleteRoutes(a) ==
    IF a = "server.js" THEN {"/api/complete-password-reset"}
    ELSE IF a = "email-otp.js" THEN {"/complete-password-reset"}
    ELSE {}

\* the markAsUsed argument the route hands to verifyOTP
MarkAsUsed(route) == route # "/api/verify-otp"

BadRequest == Reply(400, "bad_request")

SignedIn == Reply(200, "signed_in")

PasswordReset == Reply(200, "password_reset")

ResetVerified == Reply(200, "reset_verified")

Outcome(store, reply, purpose) == [store |-> store, reply |-> reply, purpose |-> purpose]

\* a verify handler whose body passed the field checks: the store it leaves,
\* its response and the purpose verifyOTP returned; ok is the outcome of
\* supabase.auth.signInWithOtp
verifyRoute(route, store, email, otp, t, ok) ==
    LET v == verifyOTP(store, email, otp, MarkAsUsed(route), t) IN
    IF ~v.ret.isValid
    THEN Outcome(v.store, Reply(400, v.ret.error), NoPurpose)
    ELSE IF route = "/api/verify-otp"
    THEN IF v.ret.purpose = "password-reset"
         THEN Outcome(v.store, Reply(200, "verified_for_reset"), v.ret.purpose)
         ELSE IF ~ok
         THEN Outcome(v.store, Reply(400, "auth_failed"), v.ret.purpose)
         ELSE Outcome(v.store, SignedIn, v.ret.purpose)
    ELSE IF route = "/verify-reset-otp"
    THEN IF v.ret.purpose # "password_reset"
         THEN Outcome(v.store, Reply(400, "not_for_reset"), v.ret.purpose)
         ELSE Outcome(v.store, ResetVerified, v.ret.purpose)
    ELSE Outcome(v.store, SignedIn, v.ret.purpose)

\* a complete-password-reset handler whose body passed the field checks;
\* userFound and updateOk are the outcomes of the user lookup and of
\* supabase.auth.admin.updateUserById
completeRoute(route, store, email, otp, t, userFound, updateOk) ==
    LET v == verifyOTP(store, email, otp, TRUE, t) IN
    IF ~v.ret.isValid
    THEN Outcome(v.store, Reply(400, v.ret.error), NoPurpose)
    ELSE IF route = "/complete-password-reset" /\ v.ret.purpose # "password_reset"
    THEN Outcome(v.store, Reply(400, "not_for_reset"), v.ret.purpose)
    ELSE IF ~userFound
    THEN Outcome(v.store,
                 Reply(IF route = "/complete-password-reset" THEN 404 ELSE 400,
                       "user_not_found"),
                 v.ret.purpose)
    ELSE IF ~updateOk
    THEN Outcome(v.store,
                 Reply(IF route = "/complete-password-reset" THEN 500 ELSE 400,
                       "update_failed"),
                 v.ret.purpose)
    ELSE Outcome(v.store, PasswordReset, v.ret.purpose)

\* what the history keeps of a code a verify route accepted: the success
\* reply and the expiresAt of the record
Accepted(store, email, otp, reply) ==
    [email |-> email, otp |-> otp, body |-> reply.body,
     expiresAt |-> store[email].expiresAt]

\* a verify route answered with body for this email and code, no code was
\* issued for the email since, and the record it accepted has not expired
AcceptedBefore(acc, email, otp, body, t) ==
    \E x \in acc : x.email = email /\ x.otp = otp /\ x.body = body /\ t <= x.expiresAt

\* values generateOTP returns: six decimal digits
GeneratedCodes ==
    { <<"1", "2", "3", "4", "5", "6">>, <<"6", "5", "4", "3", "2", "1">> }

\* the otp field of a request body: absent or empty, five digits, seven
\* digits, six characters with a letter, or a code generateOTP can return
EnteredCodes ==
    GeneratedCodes \cup
    { <<>>,
      <<"1", "2", "3", "4", "5">>,
      <<"1", "2", "3", "4", "5", "6", "7">>,
      <<"1", "2", "3", "4", "5", "a">> }

\* exactly six decimal digits
SixDigits(otp) == Len(otp) = 6 /\ \A i \in 1..Len(otp) : IsDigit(otp[i])

\* mutation: the route does not look at the shape of the code
otpFormatOk_any(route, otp) == TRUE

\* the test a route makes on the otp field before it calls verifyOTP:
\* !otp, then otp.length !== 6 || !/^\d+$/.test(otp) in server.js and
\* otp.match(/^\d{6}$/) in the routers; /api/complete-password-reset only
\* tests !otp
otpFormatOk(route, otp) ==
    IF Falsy(otp) THEN FALSE
    ELSE IF route = "/api/complete-password-reset" THEN TRUE
    ELSE IF route = "/api/verify-otp"
    THEN ~(Len(otp) # 6 \/ ~(otp # <<>> /\ \A i \in 1..Len(otp) : IsDigit(otp[i])))
    ELSE Len(otp) = 6 /\ \A i \in 1..6 : IsDigit(otp[i])

\* what the history keeps of a response: the route, the email, the reply,
\* the purpose verifyOTP returned, whether the password was changed, what the
\* history knew of an earlier acceptance, whether the submitted code was not
\* six decimal digits, and whether the handler changed the OTP store
AnswerOf(route, email, otp, o, again) ==
    [route |-> route, email |-> email, reply |-> o.reply, purpose |-> o.purpose,
     passwordChanged |-> (o.reply = PasswordReset), again |-> again,
     malformed |-> ~SixDigits(otp), touched |-> (o.store # otpStore)]

\* a verify request waiting at its await, once a new code is stored for its
\* email: the history marks that it verified an earlier code
Outdated(r, email) == IF r.email = email THEN [r EXCEPT !.stale = TRUE] ELSE r

\* a send route of the router, admitted by the limiter, stores a code
IssueCode(email, otp, purpose) ==
    /\ app \in AccountApps
    /\ purpose \in {"signin", ResetTag(app)}
    /\ BagCardinality(timers) < MaxTimers
    /\ otpStore' = storeOTP(otpStore, email, otp, purpose, now, now)
    /\ timers' = timers (+) SetToBag({NewTimer(email, otp, now)})
    /\ signedIn' = {x \in signedIn : x.email # email}
    /\ inflight' = {Outdated(r, email) : r \in inflight}
    /\ UNCHANGED <<now, issued, hist, app, lastReq, lastAns, limiterVars, handshakeVars>>

\* POST /api/verify-otp, /verify-otp, /verify-reset-otp or /verify-phone-otp
\* (whose phoneNumber, already canonical, is the key)
VerifyRequest(route, email, otp, ok) ==
    LET o == IF otpFormatOk(route, otp)
             THEN verifyRoute(route, otpStore, email, otp, now, ok)
             ELSE Outcome(otpStore, BadRequest, NoPurpose)
    IN
    /\ route \in VerifyRoutes(app)
    /\ otpStore' = o.store
    /\ lastAns' = AnswerOf(route, email, otp, o,
                            o.reply = SignedIn
                            /\ AcceptedBefore(signedIn, email, otp, SignedIn.body, now))
    /\ signedIn' = IF o.reply \in {SignedIn, ResetVerified}
                   THEN signedIn \cup {Accepted(otpStore, email, otp, o.reply)}
                   ELSE signedIn
    /\ UNCHANGED <<now, timers, issued, hist, app, inflight, lastReq,
                   limiterVars, handshakeVars>>

\* POST /api/complete-password-reset or /complete-password-reset; bodyOk
\* says that newPassword is present and at least six characters long
CompleteRequest(route, email, otp, bodyOk, userFound, updateOk) ==
    LET o == IF bodyOk /\ otpFormatOk(route, otp)
             THEN completeRoute(route, otpStore, email, otp, now, userFound, updateOk)
             ELSE Outcome(otpStore, BadRequest, NoPurpose)
    IN
    /\ route \in CompleteRoutes(app)
    /\ otpStore' = o.store
    /\ lastAns' = AnswerOf(route, email, otp, o,
                            bodyOk /\ AcceptedBefore(signedIn, email, otp,
                                                     ResetVerified.body, now))
    /\ UNCHANGED <<now, timers, issued, hist, app, inflight, lastReq, signedIn,
                   limiterVars, handshakeVars>>

NextAccount ==
    \/ \E a \in AccountApps : Boot(a)
    \/ Tick(MaxTime)
    \/ \E e \in Emails, c \in GeneratedCodes, p \in {"signin", ResetTag(app)} :
           IssueCode(e, c, p)
    \/ \E route \in VerifyRoutes(app), e \in Emails, c \in EnteredCodes, ok \in BOOLEAN :
           VerifyRequest(route, e, c, ok)
    \/ \E route \in CompleteRoutes(app), e \in Emails, c \in EnteredCodes, b \in BOOLEAN,
          f \in BOOLEAN, u \in BOOLEAN : CompleteRequest(route, e, c, b, f, u)
    \/ \E tm \in BagToSet(timers) : ExpiryTimer(tm)

SpecAccount == Init /\ [][NextAccount]_vars

----------------------------------------------------------------------------
(* Concurrent POST /verify-otp requests of email-otp.js: the handler runs  *)
(* verifyOTP(normalizedEmail, otp, true) before its only await, the        *)
(* profiles lookup, and answers after it.                                  *)

\* a request whose verifyOTP call returned valid and that waits for the
\* profiles lookup; raced says that another such request for the same email
\* and code was waiting when it arrived
Verifying(email, otp, purpose, raced) ==
    [route |-> "/verify-otp", email |-> email, otp |-> otp, purpose |-> purpose,
     pc |-> "lookup", raced |-> raced, stale |-> FALSE]

\* another request with this email and code is waiting at the lookup, its
\* code was accepted and no code was stored for the email since
Racing(reqs, email, otp) ==
    \E r \in reqs : r.email = email /\ r.otp = otp /\ r.pc = "lookup" /\ ~r.stale

\* POST /verify-otp, from the request to the await or to the error response
VerifyReceive(email, otp) ==
    LET v == IF otpFormatOk("/verify-otp", otp)
             THEN verifyOTP(otpStore, email, otp, TRUE, now)
             ELSE [store |-> otpStore, ret |-> Ret(FALSE, BadRequest.body, NoRemaining, NoPurpose)]
        raced == Racing(inflight, email, otp)
    IN
    /\ app = "email-otp.js"
    /\ otpStore' = v.store
    /\ IF v.ret.isValid
       THEN /\ Cardinality(inflight) < MaxVerifiers
            /\ inflight' = inflight \cup {Verifying(email, otp, v.ret.purpose, raced)}
            /\ UNCHANGED lastAns
       ELSE /\ lastAns' = AnswerOf("/verify-otp", email, otp,
                                   Outcome(v.store, Reply(400, v.ret.error), NoPurpose),
                                   raced)
            /\ UNCHANGED inflight
    /\ UNCHANGED <<now, timers, issued, hist, app, lastReq, signedIn,
                   limiterVars, handshakeVars>>

\* the profiles lookup answered (a user, no user or an error): the handler
\* sends the success response
VerifyResume(r) ==
    /\ r \in inflight
    /\ r.pc = "lookup"
    /\ inflight' = inflight \ {r}
    /\ lastAns' = AnswerOf(r.route, r.email, r.otp,
                            Outcome(otpStore, SignedIn, r.purpose), r.raced)
    /\ UNCHANGED <<now, ledgerVars, app, lastReq, signedIn, limiterVars, handshakeVars>>

NextVerify ==
    \/ Boot("email-otp.js")
    \/ Tick(MaxTime)
    \/ \E e \in Emails, c \in GeneratedCodes, p \in {"signin", ResetTag(app)} :
           IssueCode(e, c, p)
    \/ \E e \in Emails, c \in EnteredCodes : VerifyReceive(e, c)
    \/ \E r \in inflight : VerifyResume(r)
    \/ \E tm \in BagToSet(timers) : ExpiryTimer(tm)

SpecVerify == Init /\ [][NextVerify]_vars

----------------------------------------------------------------------------
(* Properties of the OTP ledger *)

\* the calls of h at positions i..j all carry the letter l
AllLetter(h, i, j, l) == \A k \in i..j : h.evs[k].letter = l

\* none of the first n calls of h was made after the issued expiresAt
NoneLate(h, n) == \A k \in 1..n : ~h.evs[k].late

\* C1: when the first three wrong-code verify calls since the issue of a record
\* come one after the other, with no issue and no expiry in between and all
\* within the TTL, the next verify call within the TTL returns the
\* too-many-attempts outcome whatever code it submits (the issued one
\* included), and it is this call that deletes the record.
C1_LockedAfterThreeWrong ==
    \A e \in Emails :
        \A i \in 1..(Len(hist[e].evs) - 3) :
            ( /\ ~hist[e].swept
              /\ AllLetter(hist[e], 1, i - 1, "C")
              /\ AllLetter(hist[e], i, i + 2, "W")
              /\ NoneLate(hist[e], i + 3) )
            => /\ hist[e].evs[i + 2].stored
               /\ hist[e].evs[i + 3].ret = RetTooMany
               /\ ~hist[e].evs[i + 3].stored

\* three wrong codes, then the issued code, all within the TTL
C1_Witness ==
    \E e \in Emails :
        /\ Len(hist[e].evs) = 4
        /\ ~hist[e].swept
        /\ AllLetter(hist[e], 1, 3, "W")
        /\ hist[e].evs[4].letter = "K"
        /\ NoneLate(hist[e], 4)
        /\ e \notin DOMAIN otpStore

\* the record of e is in the store with this many attempts and this flag
Holds(e, attempts, verified) ==
    /\ e \in DOMAIN otpStore
    /\ otpStore[e].attempts = attempts
    /\ otpStore[e].verified = verified

\* C2: in the sequence issue(id, purpose), verify(wrong code), verify(issued
\* code, consuming), verify(issued code, consuming), with no expiry in
\* between, the first verify returns invalid with 2 attempts remaining, the
\* second returns valid with the issued purpose and deletes the record, and
\* the third returns not-found; and no issue ever has more than one consuming
\* verify that returns valid.
C2_ConsumedOnce ==
    \A e \in Emails :
        /\ e \in DOMAIN issued => issued[e].accepted <= 1
        /\ (~hist[e].swept /\ Len(hist[e].evs) >= 1 /\ NoneLate(hist[e], 1)
              /\ AllLetter(hist[e], 1, 1, "W"))
           => /\ hist[e].evs[1].ret = RetInvalid(2)
              /\ hist[e].evs[1].stored
        /\ (~hist[e].swept /\ Len(hist[e].evs) >= 2 /\ NoneLate(hist[e], 2)
              /\ AllLetter(hist[e], 1, 1, "W") /\ AllLetter(hist[e], 2, 2, "K"))
           => /\ hist[e].evs[2].ret = RetValid(issued[e].purpose)
              /\ ~hist[e].evs[2].stored
        /\ (~hist[e].swept /\ Len(hist[e].evs) >= 3 /\ NoneLate(hist[e], 2)
              /\ AllLetter(hist[e], 1, 1, "W") /\ AllLetter(hist[e], 2, 3, "K"))
           => /\ hist[e].evs[3].ret = RetNotFound
              /\ ~hist[e].evs[3].stored

\* the whole sequence was run for a sign-in code
C2_Witness ==
    \E e \in Emails :
        /\ ~hist[e].swept
        /\ Len(hist[e].evs) = 3
        /\ AllLetter(hist[e], 1, 1, "W") /\ AllLetter(hist[e], 2, 3, "K")
        /\ NoneLate(hist[e], 3)
        /\ issued[e].purpose = "signin"
        /\ issued[e].accepted = 1

\* the first verify since the last issue submitted the code of the record
\* that this issue replaced
OldCodeFirst(e) ==
    /\ e \in DOMAIN issued
    /\ hist[e].ok
    /\ Len(hist[e].evs) >= 1
    /\ hist[e].evs[1].entered \in issued[e].replaced

\* C3 as stated: if a second code is issued while the record of the first is
\* still stored, a verify that submits the first code returns not-found.
C3_OldCodeNotFound ==
    \A e \in Emails : OldCodeFirst(e) => hist[e].evs[1].ret = RetNotFound

\* C3 as amended: if a second code, different from the first, is issued while
\* the record of the first is still stored, a verify that submits the first
\* code never returns valid: it is compared with the new record, and when it
\* comes within the TTL of the new record, before any expiry timer removed
\* it, it returns the wrong-code outcome with 2 attempts remaining and uses
\* one attempt of the new record.
C3_OldCodeCountsAsWrong ==
    \A e \in Emails :
        (OldCodeFirst(e) /\ hist[e].evs[1].entered # issued[e].otp)
        => /\ ~hist[e].evs[1].ret.isValid
           /\ (~hist[e].evs[1].late /\ (hist[e].swept => hist[e].evs[1].stored))
              => /\ hist[e].evs[1].ret = RetInvalid(MAX_OTP_ATTEMPTS - 1)
                 /\ hist[e].evs[1].stored
           /\ (~hist[e].swept /\ ~hist[e].evs[1].late /\ Len(hist[e].evs) = 1)
              => Holds(e, 1, FALSE)

\* the old code was submitted against a different new code and counted
C3_Witness ==
    \E e \in Emails :
        /\ OldCodeFirst(e)
        /\ hist[e].evs[1].entered # issued[e].otp
        /\ Len(hist[e].evs) = 1
        /\ hist[e].evs[1].ret = RetInvalid(2)
        /\ Holds(e, 1, FALSE)

\* call k is the first verify since the issue that was made after expiresAt,
\* and no earlier verify took the record out of the store
FirstLate(h, k) ==
    /\ k \in 1..Len(h.evs)
    /\ h.evs[k].late
    /\ \A j \in 1..(k - 1) : ~h.evs[j].late /\ h.evs[j].stored

\* C4 as stated: a verify made after the TTL of a record has elapsed returns
\* the expired outcome, whatever code it submits and whatever the attempts,
\* whether or not the expiry timer of the record has run.
C4_LateIsExpired ==
    \A e \in Emails : \A k \in 1..Len(hist[e].evs) :
        FirstLate(hist[e], k) => hist[e].evs[k].ret = RetExpired

\* C4 as amended: a verify made after the TTL of a record has elapsed never
\* returns valid and leaves no record: it returns the expired outcome when the
\* record is still stored, and the not-found outcome when an expiry timer has
\* already removed it.
C4_LateIsExpiredOrNotFound ==
    \A e \in Emails : \A k \in 1..Len(hist[e].evs) :
        FirstLate(hist[e], k)
        => /\ ~hist[e].evs[k].ret.isValid
           /\ ~hist[e].evs[k].stored
           /\ hist[e].evs[k].ret = IF hist[e].swept THEN RetNotFound ELSE RetExpired

\* the issued code, submitted late as the first verify, found the record
\* still stored with no attempts and was answered with the expired outcome
C4_Witness ==
    \E e \in Emails :
        /\ FirstLate(hist[e], 1)
        /\ hist[e].evs[1].letter \in {"C", "K"}
        /\ ~hist[e].swept
        /\ hist[e].evs[1].ret = RetExpired

\* C9: a non-consuming verify with the issued code returns valid with the
\* issued purpose and leaves the record stored with verified = true; a
\* consuming verify with the same code that follows it, with no other call and
\* no expiry in between, returns valid with the same purpose and deletes the
\* record.
C9_MarkThenConsume ==
    \A e \in Emails :
        /\ (~hist[e].swept /\ Len(hist[e].evs) >= 1 /\ NoneLate(hist[e], 1)
              /\ AllLetter(hist[e], 1, 1, "C"))
           => /\ hist[e].evs[1].ret = RetValid(issued[e].purpose)
              /\ hist[e].evs[1].stored
              /\ Len(hist[e].evs) = 1 => Holds(e, 0, TRUE)
        /\ (~hist[e].swept /\ Len(hist[e].evs) >= 2 /\ NoneLate(hist[e], 2)
              /\ AllLetter(hist[e], 1, 1, "C") /\ AllLetter(hist[e], 2, 2, "K"))
           => /\ hist[e].evs[2].ret = RetValid(issued[e].purpose)
              /\ ~hist[e].evs[2].stored
              /\ e \notin DOMAIN otpStore

\* a password-reset code was checked without consuming, then consumed
C9_Witness ==
    \E e \in Emails :
        /\ ~hist[e].swept
        /\ Len(hist[e].evs) = 2
        /\ AllLetter(hist[e], 1, 1, "C") /\ AllLetter(hist[e], 2, 2, "K")
        /\ NoneLate(hist[e], 2)
        /\ issued[e].purpose = "password-reset"
        /\ hist[e].evs[2].ret.isValid

\* C10: once a non-consuming verify has marked a record verified, each verify
\* with a non-matching code still uses one attempt (2, 1, then 0 remaining, as
\* for a record that is not marked), and after three of them the next verify,
\* with the issued code and consuming or not, returns too-many-attempts and
\* deletes the record.
C10_VerifiedStillCounts ==
    \A e \in Emails :
        (~hist[e].swept /\ Len(hist[e].evs) >= 1 /\ AllLetter(hist[e], 1, 1, "C")
           /\ NoneLate(hist[e], Len(hist[e].evs)))
        => /\ \A i \in 2..Len(hist[e].evs) :
                  (i <= MAX_OTP_ATTEMPTS + 1 /\ AllLetter(hist[e], 2, i, "W"))
                  => /\ hist[e].evs[i].ret = RetInvalid(MAX_OTP_ATTEMPTS - (i - 1))
                     /\ hist[e].evs[i].stored
                     /\ Len(hist[e].evs) = i => Holds(e, i - 1, TRUE)
           /\ (Len(hist[e].evs) = MAX_OTP_ATTEMPTS + 2
                 /\ AllLetter(hist[e], 2, MAX_OTP_ATTEMPTS + 1, "W"))
              => /\ hist[e].evs[MAX_OTP_ATTEMPTS + 2].ret = RetTooMany
                 /\ ~hist[e].evs[MAX_OTP_ATTEMPTS + 2].stored

\* a marked record took three wrong codes and then refused the issued code
C10_Witness ==
    \E e \in Emails :
        /\ ~hist[e].swept
        /\ Len(hist[e].evs) = 5
        /\ AllLetter(hist[e], 1, 1, "C") /\ AllLetter(hist[e], 2, 4, "W")
        /\ hist[e].evs[5].letter \in {"C", "K"}
        /\ NoneLate(hist[e], 5)
        /\ hist[e].evs[5].ret = RetTooMany

\* every stored record has between 0 and MAX_OTP_ATTEMPTS attempts
AttemptsInRange ==
    \A e \in DOMAIN otpStore :
        otpStore[e].attempts >= 0 /\ otpStore[e].attempts <= MAX_OTP_ATTEMPTS

\* no step raises the attempts of a record that already has MAX_OTP_ATTEMPTS
NoCountAtMax ==
    \A e \in DOMAIN otpStore :
        (otpStore[e].attempts >= MAX_OTP_ATTEMPTS /\ e \in DOMAIN otpStore')
        => otpStore'[e].attempts <= otpStore[e].attempts

\* C11: in every reachable state every stored record has 0 <= attempts <= 3,
\* and no verify increments the attempts of a record whose attempts is
\* already 3.
C11_AttemptsBounded == []AttemptsInRange /\ [][NoCountAtMax]_vars

\* a record is stored with its three attempts used
C11_Witness ==
    \E e \in DOMAIN otpStore : otpStore[e].attempts = MAX_OTP_ATTEMPTS

\* C12: every stored record satisfies expiresAt = createdAt + 10 minutes,
\* the clock being allowed to advance between the two clock reads of
\* storeOTP.
C12_FixedTtl ==
    \A e \in DOMAIN otpStore :
        otpStore[e].expiresAt = otpStore[e].createdAt + OTP_EXPIRY_TIME

\* the timers that a step adds
NewTimers == BagToSet(timers' (-) timers)

\* C13: an issue for an identifier leaves the record of that identifier with
\* the new code, the given purpose, attempts = 0 and verified = false,
\* whatever record was stored for it before (none, a live one, one marked
\* verified, one with 3 attempts, one of the other purpose).
C13_IssueOverwrites ==
    [][\A tm \in NewTimers :
          /\ tm.email \in DOMAIN otpStore'
          /\ otpStore'[tm.email].otp = tm.otp
          /\ otpStore'[tm.email].purpose = issued'[tm.email].purpose
          /\ otpStore'[tm.email].attempts = 0
          /\ ~otpStore'[tm.email].verified
          /\ otpStore'[tm.email].expiresAt = tm.due]_vars

\* a password-reset issue has just replaced a sign-in record that was marked
\* verified and had used its three attempts
C13_Witness ==
    \E e \in Emails :
        /\ hist[e].ok /\ hist[e].evs = <<>> /\ ~hist[e].swept
        /\ issued[e].purpose = "password-reset"
        /\ hist[e].over = {[purpose |-> "signin", attempts |-> MAX_OTP_ATTEMPTS,
                              verified |-> TRUE]}
        /\ Holds(e, 0, FALSE)
        /\ otpStore[e].otp = issued[e].otp
        /\ otpStore[e].purpose = "password-reset"

\* the expiry timer tm fires in this step
Fires(tm) == BagIn(tm, timers) /\ timers' = timers (-) SetToBag({tm})

\* C29: an expiry timer that fires when the record of its email is gone
\* (deleted by a verify or by another timer) or holds a different code than
\* the timer's leaves the OTP store unchanged.
C29_StaleTimerIsNoOp ==
    [][\A tm \in BagToSet(timers) :
          (Fires(tm)
           /\ (tm.email \notin DOMAIN otpStore \/ otpStore[tm.email].otp # tm.otp))
          => otpStore' = otpStore]_vars

\* the timer of a replaced code has fired and the record that replaced it,
\* with a different code, is still stored
C29_Witness ==
    \E e \in DOMAIN otpStore \cap DOMAIN issued :
        /\ issued[e].replaced # {}
        /\ otpStore[e].otp = issued[e].otp
        /\ otpStore[e].otp \notin issued[e].replaced
        /\ \A tm \in BagToSet(timers) : tm.email = e => tm.otp \notin issued[e].replaced

\* C30: every record in the OTP store is eventually removed, whether or not
\* verifyOTP is ever called for its email, when time passes and every
\* scheduled expiry timer eventually fires.
C30_RecordEventuallyRemoved ==
    \A e \in Emails : (e \in DOMAIN otpStore) ~> (e \notin DOMAIN otpStore)

\* a record for which verifyOTP was never called was removed by its timer
C30_Witness ==
    \E e \in DOMAIN issued :
        /\ e \notin DOMAIN otpStore
        /\ hist[e].ok
        /\ hist[e].evs = <<>>
        /\ hist[e].swept

\* the record of e is past its expiresAt and has used up its attempts
ExpiredAndLocked(e) ==
    /\ e \in DOMAIN otpStore
    /\ now > otpStore[e].expiresAt
    /\ otpStore[e].attempts >= MAX_OTP_ATTEMPTS

\* C31: when a stored record is both past its expiresAt and at 3 attempts or
\* more, a verify call for it, whatever the code and the consume mode,
\* returns the expired outcome, not the too-many-attempts one, and deletes
\* the record.
C31_ExpiredBeforeLocked ==
    \A e \in Emails :
        ExpiredAndLocked(e)
        => \A c \in Codes, m \in BOOLEAN :
               LET r == verifyOTP(otpStore, e, c, m, now) IN
               r.ret = RetExpired /\ e \notin DOMAIN r.store

\* three wrong codes within the TTL, then a call after the expiresAt that
\* found the record still stored and was answered expired
C31_Witness ==
    \E e \in Emails :
        /\ Len(hist[e].evs) = 4
        /\ ~hist[e].swept
        /\ AllLetter(hist[e], 1, 3, "W")
        /\ NoneLate(hist[e], 3)
        /\ hist[e].evs[3].stored
        /\ hist[e].evs[4].late
        /\ hist[e].evs[4].ret = RetExpired
        /\ e \notin DOMAIN otpStore

\* a step in which no storeOTP runs, no timer fires and the clock stands: a
\* verifyOTP call, or nothing
VerifyStep == timers' = timers /\ now' = now

\* a verify call for a stored record that leaves it stored changes only
\* attempts, by +1, when the code is wrong, and only the verified flag when
\* the code is the stored one
OnlyAttemptsOrFlag ==
    \A e \in DOMAIN otpStore : \A c \in Codes, m \in BOOLEAN :
        LET r == verifyOTP(otpStore, e, c, m, now) IN
        e \in DOMAIN r.store
        => r.store[e] = IF c # otpStore[e].otp
                        THEN [otpStore[e] EXCEPT !.attempts = @ + 1]
                        ELSE [otpStore[e] EXCEPT !.verified = TRUE]

\* C32: a verify call that leaves a record stored leaves its code, purpose,
\* createdAt and expiresAt as they were: a wrong-code call changes only
\* attempts (by exactly +1), a non-consuming call with the stored code only
\* the verified flag, and no step made of verify calls changes anything else
\* of a record.
C32_VerifyKeepsIssueData ==
    /\ []OnlyAttemptsOrFlag
    /\ [][VerifyStep
       => \A e \in DOMAIN otpStore \cap DOMAIN otpStore' :
              \/ otpStore'[e] = otpStore[e]
              \/ otpStore'[e] = [otpStore[e] EXCEPT !.attempts = @ + 1]
              \/ otpStore'[e] = [otpStore[e] EXCEPT !.verified = TRUE]]_vars

\* a record that has counted a wrong code and accepted a non-consuming
\* verify, with the code and expiresAt of its issue
C32_Witness ==
    \E e \in DOMAIN otpStore \cap DOMAIN issued :
        /\ otpStore[e].attempts >= 1
        /\ otpStore[e].verified
        /\ otpStore[e].otp = issued[e].otp
        /\ otpStore[e].purpose = issued[e].purpose
        /\ otpStore[e].expiresAt = issued[e].expiresAt

\* a verify call for an email without a record returns the not-found
\* outcome and leaves the store as it is
AbsentIsNotFound ==
    \A e \in Emails \ DOMAIN otpStore : \A c \in Codes, m \in BOOLEAN :
        LET r == verifyOTP(otpStore, e, c, m, now) IN
        /\ ~r.ret.isValid
        /\ r.ret.error = "not_found"
        /\ r.store = otpStore

\* C33: once a verify has deleted the record of an email, every later
\* verify for it, with any code and either consume mode, returns not-found
\* and changes nothing until the next storeOTP for the email: a verify for
\* an email without a record does so, and no verify brings a record back.
C33_DeletedStaysNotFound ==
    /\ []AbsentIsNotFound
    /\ [][VerifyStep => \A e \in Emails \ DOMAIN otpStore : e \notin DOMAIN otpStore']_vars
    /\ [](\A e \in Emails : \A i \in 1..Len(hist[e].evs) : \A j \in (i + 1)..Len(hist[e].evs) :
             ~hist[e].evs[i].stored
             => hist[e].evs[j].ret.error = "not_found" /\ ~hist[e].evs[j].stored)

\* a consuming verify deleted the record and the verify that followed it
\* was answered not-found
C33_Witness ==
    \E e \in Emails :
        /\ Len(hist[e].evs) = 2
        /\ hist[e].evs[1].letter = "K"
        /\ hist[e].evs[1].ret.isValid
        /\ ~hist[e].evs[1].stored
        /\ hist[e].evs[2].ret.error = "not_found"
        /\ e \notin DOMAIN otpStore

\* C35: on every store and for every email and code, the two-argument
\* legacy verifyOTP gives the same verdict, the same error and the same store
\* as verifyOTP called with markAsUsed = true, the purpose and verified
\* attributes left aside; verifyPhoneOTP gives the same value and the same
\* store as verifyOTP, all attributes included.
C35_VerifyCopiesAgree ==
    \A e \in Emails, c \in Codes :
        LET main == verifyOTP(otpStore, e, c, TRUE, now)
            legacy == legacyVerifyOTP(LegacyStore(otpStore), e, c, now)
        IN
        /\ legacy.ret.isValid = main.ret.isValid
        /\ legacy.ret.error = main.ret.error
        /\ legacy.ret.remaining = main.ret.remaining
        /\ legacy.store = LegacyStore(main.store)
        /\ \A m \in BOOLEAN :
               verifyPhoneOTP(otpStore, e, c, m, now) = verifyOTP(otpStore, e, c, m, now)

\* a record marked verified with one failed attempt, on which one code is
\* accepted and deleted by both functions and the other code is refused
C35_Witness ==
    \E e \in DOMAIN otpStore, c \in Codes :
        /\ otpStore[e].verified
        /\ otpStore[e].attempts > 0
        /\ verifyOTP(otpStore, e, c, TRUE, now).ret.isValid
        /\ legacyVerifyOTP(LegacyStore(otpStore), e, c, now).store
             = LegacyStore(MapDelete(otpStore, e))
        /\ \E d \in Codes : verifyOTP(otpStore, e, d, TRUE, now).ret.error = "invalid_otp"

\* C36: the expiry timer scheduled for one record never removes a record of
\* the same email that was issued later (its expiresAt is after the timer's
\* due time) before that later record's own expiresAt, the later record
\* carrying the same code as the earlier one included.
C36_TimerSparesLaterRecord ==
    [][\A tm \in BagToSet(timers) :
          (/\ Fires(tm)
           /\ tm.email \in DOMAIN otpStore
           /\ otpStore[tm.email].expiresAt > tm.due
           /\ now < otpStore[tm.email].expiresAt)
          => otpStore' = otpStore]_vars

\* the store with the verified flag of the record of e inverted
FlagFlipped(store, e) == MapSet(store, e, [store[e] EXCEPT !.verified = ~@])

\* the two results return the same value and leave the same emails stored,
\* with the same code and the same attempts
SameOutcome(r1, r2) ==
    /\ r1.ret = r2.ret
    /\ DOMAIN r1.store = DOMAIN r2.store
    /\ \A e \in DOMAIN r1.store :
           /\ r1.store[e].otp = r2.store[e].otp
           /\ r1.store[e].attempts = r2.store[e].attempts

\* C40: the verified flag has no influence on a verify outcome: on two stores
\* that differ only in the verified flag of one record, every call of
\* verifyOTP and of verifyPhoneOTP returns the same value and leaves the same
\* code, attempts and presence of the record.
C40_VerifiedFlagIgnored ==
    \A e \in DOMAIN otpStore, f \in Emails, c \in Codes, m \in BOOLEAN :
        /\ SameOutcome(verifyOTP(otpStore, f, c, m, now),
                       verifyOTP(FlagFlipped(otpStore, e), f, c, m, now))
        /\ SameOutcome(verifyPhoneOTP(otpStore, f, c, m, now),
                       verifyPhoneOTP(FlagFlipped(otpStore, e), f, c, m, now))

\* a record marked verified that is neither expired nor out of attempts: a
\* right code is accepted and a wrong one counted, as on the unmarked record
C40_Witness ==
    \E e \in DOMAIN otpStore :
        /\ otpStore[e].verified
        /\ now <= otpStore[e].expiresAt
        /\ otpStore[e].attempts < MAX_OTP_ATTEMPTS
        /\ \E c \in Codes :
               /\ verifyOTP(otpStore, e, c, FALSE, now).ret.error = "invalid_otp"
               /\ verifyOTP(FlagFlipped(otpStore, e), e, c, FALSE, now).ret.error
                    = "invalid_otp"

----------------------------------------------------------------------------
(* Properties of the rate limiter *)

\* how many of the first n calls of log were admitted with a timestamp in
\* the window (lo, hi]
AdmittedIn(log, n, lo, hi) ==
    Cardinality({j \in 1..n : log[j].ok /\ log[j].at > lo /\ log[j].at <= hi})

\* the window of RATE_LIMIT_WINDOW ticks that ends at t holds the timestamps
\* in (t - RATE_LIMIT_WINDOW, t]
AdmittedInWindow(log, n, t) == AdmittedIn(log, n, t - RATE_LIMIT_WINDOW, t)

\* C5: for every key and every instant t, at most 5 admitted checkRateLimit
\* calls have a timestamp inside the 15-minute window ending at t, and a call
\* made when 5 calls were already admitted inside the window ending at its
\* own timestamp returns false.
C5_AtMostFivePerWindow ==
    \A k \in Identifiers :
        /\ \A t \in 0..now :
               AdmittedInWindow(rateLog[k], Len(rateLog[k]), t) <= MAX_REQUESTS_PER_WINDOW
        /\ \A i \in 1..Len(rateLog[k]) :
               AdmittedInWindow(rateLog[k], i - 1, rateLog[k][i].at) >= MAX_REQUESTS_PER_WINDOW
               => ~rateLog[k][i].ok

\* five calls admitted inside one window and a sixth one rejected
C5_Witness ==
    \E k \in Identifiers : \E i \in 1..Len(rateLog[k]) :
        /\ AdmittedInWindow(rateLog[k], i - 1, rateLog[k][i].at) = MAX_REQUESTS_PER_WINDOW
        /\ ~rateLog[k][i].ok

\* call i of log finds at least 5 earlier admissions of which exactly the 4
\* latest are still inside the window ending at time t
OneSlotFree(log, i, t) ==
    /\ AdmittedIn(log, i - 1, -1, t) >= MAX_REQUESTS_PER_WINDOW
    /\ AdmittedInWindow(log, i - 1, t) = MAX_REQUESTS_PER_WINDOW - 1

\* C6: a checkRateLimit call made after 5 admissions for its key, when the
\* oldest of them has left the 15-minute window and the other four are still
\* inside it, is admitted, and the call that follows it while those four are
\* still inside the window is rejected: exactly one slot was recovered.
C6_OneSlotRecovered ==
    \A k \in Identifiers : \A i \in 1..Len(rateLog[k]) :
        OneSlotFree(rateLog[k], i, rateLog[k][i].at)
        => /\ rateLog[k][i].ok
           /\ (i < Len(rateLog[k]) /\ OneSlotFree(rateLog[k], i, rateLog[k][i + 1].at))
              => ~rateLog[k][i + 1].ok

\* the oldest of five admissions is more than 15 minutes old, the next call
\* is admitted and the one after it rejected
C6_Witness ==
    \E k \in Identifiers : \E i \in 1..(Len(rateLog[k]) - 1) :
        /\ OneSlotFree(rateLog[k], i, rateLog[k][i].at)
        /\ \E j \in 1..(i - 1) :
               rateLog[k][j].ok /\ rateLog[k][i].at - rateLog[k][j].at > RATE_LIMIT_WINDOW
        /\ rateLog[k][i].ok
        /\ OneSlotFree(rateLog[k], i, rateLog[k][i + 1].at)
        /\ ~rateLog[k][i + 1].ok

\* the checkRateLimit call this step makes for the key k returns false
RejectedNow(k) ==
    /\ Len(rateLog'[k]) = Len(rateLog[k]) + 1
    /\ ~rateLog'[k][Len(rateLog'[k])].ok

\* C22: a checkRateLimit call that returns false leaves the rate-limit store
\* as it was: the sequence stored for its key is neither appended to nor
\* pruned (and no other key is touched).
C22_RejectionLeavesSequence ==
    [][\A k \in Identifiers : RejectedNow(k) => rateLimitStore' = rateLimitStore]_vars

\* the last call for a key was rejected, at a later tick than the five
\* admissions its stored sequence still holds
C22_Witness ==
    \E k \in Identifiers :
        /\ rateLog[k] # <<>>
        /\ ~rateLog[k][Len(rateLog[k])].ok
        /\ k \in DOMAIN rateLimitStore
        /\ Len(rateLimitStore[k]) = MAX_REQUESTS_PER_WINDOW
        /\ \A i \in 1..Len(rateLimitStore[k]) :
               rateLimitStore[k][i] < rateLog[k][Len(rateLog[k])].at

----------------------------------------------------------------------------
(* Properties of the OAuth handshake *)

\* the callbacks the state remembers: those waiting at an await and the last
\* one answered
Callbacks == {Answer(p) : p \in BagToSet(pending)} \cup {answered}

\* the callback got the error redirect without a token request being sent
FailedClosed(c) == c.response = "error_redirect" /\ ~c.exchanged

\* C7: a callback whose state value was never stored by a login request, or
\* was taken out by an earlier callback and not stored again since, is
\* answered with the error redirect and sends no token-exchange request.
C7_UnknownStateFailsClosed ==
    \A c \in Callbacks :
        (c.pc # "none" /\ (c.arrival.neverIssued \/ c.arrival.alreadyConsumed))
        => FailedClosed(c)

\* a state that an earlier callback had consumed was presented again
C7_Witness ==
    /\ answered.arrival.alreadyConsumed
    /\ ~answered.arrival.neverIssued
    /\ FailedClosed(answered)

\* C8: a callback that presents a state stored more than 10 minutes earlier
\* is answered with the error redirect and sends no token-exchange request,
\* whether or not a cleanup sweep has run since.
C8_OverdueStateRejected ==
    \A c \in Callbacks :
        c.arrival.overdue => FailedClosed(c)

\* C25: a callback that presents a state present in the state store leaves
\* the store without that state, whatever its outcome: also when it fails
\* because the authorization code is missing or because the provider sent
\* an error parameter.
C25_PresentedStateRemoved ==
    \A c \in Callbacks : c.arrival.stored => ~c.left

\* C26: of two callbacks that present the same stored state and interleave
\* at their awaits, the one that arrives while the other, having passed the
\* state check, waits at an await is answered with the error redirect and
\* sends no token request: at most one of them reaches the token exchange.
C26_OneCallbackPerState ==
    \A c \in Callbacks : c.arrival.racing => FailedClosed(c)

\* the second callback was turned away while the first is waiting for the
\* provider
C26_Witness ==
    /\ answered.arrival.racing
    /\ FailedClosed(answered)
    /\ \E p \in BagToSet(pending) : p.exchanged /\ ~p.arrival.racing

\* some callback request has been received
CallbackSeen == answered # NoCallback \/ pending # EmptyBag

\* the state st is in the store and older than OAUTH_STATE_EXPIRY
Abandoned(st) == StateKnown(oauthStates, st) /\ StateExpired(oauthStates[st], now)

\* C27: a state token in the state store that no callback ever presents is
\* eventually removed from the store as time passes, whether or not any
\* login or callback request arrives later: once it is older than the
\* expiry, it eventually leaves the store (a login request that stores the
\* same token anew counts as its leaving).
C27_AbandonedStateExpires ==
    \A st \in StateTokens : Abandoned(st) ~> (~Abandoned(st) \/ CallbackSeen)

\* the callback c, waiting for the token response or for the user info, is
\* answered in this step: the awaited call failed
ProviderFailure(c) ==
    /\ c.pc \in {"token", "userinfo"}
    /\ BagIn(c, pending)
    /\ pending' = pending (-) SetToBag({c})

\* C28: when the token exchange or the profile fetch of a callback fails,
\* the callback is answered with the error redirect, and the state store and
\* the set of consumed states are left as they were: the state it took out
\* stays out.
C28_ProviderFailureRedirects ==
    [][\A c \in BagToSet(pending) :
          ProviderFailure(c)
          => /\ answered'.response = "error_redirect"
             /\ oauthStates' = oauthStates
             /\ consumed' = consumed
             /\ (c.state \in consumed => ~StateKnown(oauthStates', c.state))]_vars

\* a callback failed after its token request was sent, and its state is out
\* of the store
C28_Witness ==
    /\ answered.exchanged
    /\ answered.response = "error_redirect"
    /\ consumed # {}
    /\ \A st \in consumed : ~StateKnown(oauthStates, st)

----------------------------------------------------------------------------
(* Properties of the send and resend routes *)

Rejected400(step) == step.reply.status = 400

\* C14: every send or resend request whose identifier is not well-formed is
\* rejected with status 400, and its handler changes neither the rate-limit
\* store nor the OTP store; in every issuing route, /resend-otp included.
C14_MalformedRejectedUntouched ==
    (lastReq.step = "receive" /\ ~lastReq.wellFormed)
    => (Rejected400(lastReq) /\ ~lastReq.touched)

\* the keys of the phone OTP store
PhoneKeys == IF app = "phone-otp.js" THEN DOMAIN otpStore ELSE {}

\* C15: every accepted phone input is stored under one canonical form, +509
\* followed by the same number of subscriber digits whichever of the three
\* shapes was typed, and the rate-limit window is kept under that form too.
C15_OneCanonicalForm ==
    \A k1 \in PhoneKeys, k2 \in PhoneKeys :
        /\ startsWith(k1, CountryPrefix)
        /\ Len(k1) = Len(k2)
        /\ limiterKey("/send-phone-otp", k1) \in DOMAIN rateLimitStore

\* C39: formatPhoneNumberForTwilio is idempotent on the inputs it accepts:
\* applied to a canonical number it returned (the key under which a send
\* route stored the code), it returns that same number and never null, so the
\* canonical number can be submitted to /verify-phone-otp.
C39_FormatIdempotent ==
    \A k \in PhoneKeys :
        /\ formatPhoneNumberForTwilio(k) # NoPhone
        /\ formatPhoneNumberForTwilio(k) = k

\* the reply of /send-reset-otp when the profiles lookup finds no account
AccountAbsentReply == Reply(200, "if_account_exists")

\* C16: the reply of /send-reset-otp (email-otp.js) to a well-formed email is
\* the one it gives when the directory holds no account for that email,
\* whether or not it holds one and whatever the rate-limit store holds.
C16_ResetReplyUniform ==
    (lastReq.route = "/send-reset-otp" /\ lastReq.wellFormed /\ lastReq.reply # NoReply)
    => lastReq.reply = AccountAbsentReply

\* C23: for concurrent send and resend requests on one email, interleaved
\* at their awaits: no stored sequence is longer than 5; every admission
\* adds exactly one entry to the sequence of its limiter key, so no more than
\* 5 requests are admitted per key while the clock stands; the admitted
\* request leaves its own code in the stored record, and no other handler
\* step (a rejection, a directory answer, a dispatcher answer of an earlier
\* request) changes the OTP store, so the record always holds the code of
\* the most recently admitted request.
C23_AdmissionAndStoreAtomic ==
    /\ [](\A k \in DOMAIN rateLimitStore : Len(rateLimitStore[k]) <= MAX_REQUESTS_PER_WINDOW)
    /\ [][IF NewTimers # {}
          THEN LET k == limiterKey(lastReq'.route, lastReq'.id) IN
               /\ Len(StoredRequests(rateLimitStore', k))
                      = Len(StoredRequests(rateLimitStore, k)) + 1
               /\ lastReq'.id \in DOMAIN otpStore'
               /\ otpStore'[lastReq'.id].otp = lastReq'.otp
          ELSE otpStore' = otpStore]_vars

\* two requests wait for the dispatcher with different codes, the record
\* holds one of them, and a request was just rejected at the full window
C23_Witness ==
    /\ \E r1 \in inflight, r2 \in inflight :
           r1.pc = "dispatch" /\ r2.pc = "dispatch" /\ r1.id = r2.id /\ r1.otp # r2.otp
    /\ lastReq.reply = Reply(429, "rate_limited")
    /\ Len(StoredRequests(rateLimitStore, limiterKey(lastReq.route, lastReq.id)))
           = MAX_REQUESTS_PER_WINDOW

\* the position of the first call named c in calls, or 0
RECURSIVE FirstCall(_, _, _)
FirstCall(calls, c, i) ==
    IF i > Len(calls) THEN 0
    ELSE IF calls[i] = c THEN i
    ELSE FirstCall(calls, c, i + 1)

RateLimitedReply == Reply(429, "rate_limited")

\* C18: in every send and resend route checkRateLimit is called before
\* generateOTP, storeOTP and the dispatcher; when it returns false the handler
\* replies with status 429 having made no other call: no code is generated,
\* the OTP store (and so the record of the identifier) is unchanged, and
\* nothing is handed to the dispatcher.
C18_LimiterBeforeIssue ==
    /\ \A i \in 1..Len(lastReq.calls) :
           lastReq.calls[i] \in {"generateOTP", "storeOTP", "dispatch"}
           => /\ FirstCall(lastReq.calls, "checkRateLimit", 1) > 0
              /\ FirstCall(lastReq.calls, "checkRateLimit", 1) < i
    /\ lastReq.reply = RateLimitedReply
       => /\ lastReq.calls = <<"checkRateLimit">>
          /\ ~lastReq.touched
    /\ (lastReq.calls # <<>> /\ lastReq.calls # <<"directory">>
          /\ lastReq.reply # RateLimitedReply)
       => lastReq.calls = <<"checkRateLimit", "generateOTP", "storeOTP", "dispatch">>

\* a sixth request for an identifier that has a stored record was refused
C18_Witness ==
    /\ lastReq.reply = RateLimitedReply
    /\ lastReq.id \in DOMAIN otpStore
    /\ Len(StoredRequests(rateLimitStore, limiterKey(lastReq.route, lastReq.id)))
          = MAX_REQUESTS_PER_WINDOW

\* the last handler step was the reply to a failed dispatch
DispatchFailed == lastReq.step = "dispatch" /\ lastReq.reply = dispatchFailure(lastReq.route)

\* C19: when the dispatcher reports a failure after a code was stored, the
\* handler changes neither store: the record is still stored, a verify that
\* submits its code (consuming or not, the clock being within the TTL) returns
\* valid, and the timestamp of the request is still in the rate-limit entry
\* of its key, inside the window.
C19_FailedDispatchKeepsRecord ==
    DispatchFailed
    => /\ ~lastReq.touched
       /\ lastReq.id \in DOMAIN otpStore
       /\ otpStore[lastReq.id].otp = lastReq.otp
       /\ \A m \in BOOLEAN :
              verifyOTP(otpStore, lastReq.id, lastReq.otp, m, now).ret
                  = RetValid(otpStore[lastReq.id].purpose)
       /\ LET requests == StoredRequests(rateLimitStore,
                                         limiterKey(lastReq.route, lastReq.id))
          IN /\ \E i \in 1..Len(requests) : requests[i] = lastReq.at
             /\ Len(Prune(requests, now - RATE_LIMIT_WINDOW)) >= 1

\* the fifth send for an identifier failed at the dispatcher, and the window
\* of the identifier is full
C19_Witness ==
    /\ DispatchFailed
    /\ lastReq.route = "/send-phone-otp"
    /\ AtCap(StoredRequests(rateLimitStore, limiterKey(lastReq.route, lastReq.id)))

\* the storeOTP calls made for id during the last RATE_LIMIT_WINDOW: each
\* call scheduled one timer, due OTP_EXPIRY_TIME after the call
StoredInWindow(id) ==
    LET recent == {tm \in BagToSet(timers) :
                      /\ tm.email = id
                      /\ tm.due - OTP_EXPIRY_TIME > now - RATE_LIMIT_WINDOW}
    IN BagCardinality([tm \in recent |-> CopiesIn(tm, timers)])

\* C37: in email-otp.js at most MAX_REQUESTS_PER_WINDOW (5) OTP records are
\* stored for one email within any 15-minute window, the send-otp, resend-otp
\* and send-reset-otp routes counted together.
C37_FiveRecordsPerWindow ==
    app = "email-otp.js" =>
        \A id \in {tm.email : tm \in BagToSet(timers)} :
            StoredInWindow(id) <= MAX_REQUESTS_PER_WINDOW

----------------------------------------------------------------------------
(* Properties of the verify and password-reset routes *)

\* C17: in server.js, once POST /api/verify-otp has answered success for a
\* sign-in code, a later POST /api/verify-otp with the same email and the
\* same code, no code having been issued in between, does not answer
\* success again.
C17_SignInCodeVerifiesOnce ==
    (lastAns.route = "/api/verify-otp" /\ lastAns.reply = SignedIn
        /\ lastAns.purpose = "signin")
    => ~lastAns.again

\* the replies of a route whose verifyOTP call did not return valid
VerificationFailed ==
    {Reply(400, e) : e \in {"not_found", "expired", "too_many_attempts", "invalid_otp"}}

\* C21: in email-otp.js, once /verify-reset-otp has answered success for an
\* email and a code, a /complete-password-reset with the same email and code,
\* before the record would expire and no code having been issued in between,
\* passes its OTP verification.
C21_ResetCodeSurvivesVerify ==
    (lastAns.route = "/complete-password-reset" /\ lastAns.again)
    => lastAns.reply \notin VerificationFailed

\* C38: when /verify-reset-otp or /complete-password-reset of email-otp.js
\* rejects a request because the purpose of the record is not password_reset,
\* the handler has left the OTP store as it was, and the record of the email
\* is still accepted by the sign-in route /verify-otp.
C38_PurposeRejectionKeepsRecord ==
    (/\ lastAns.route \in {"/verify-reset-otp", "/complete-password-reset"}
     /\ lastAns.reply = Reply(400, "not_for_reset"))
    => /\ ~lastAns.touched
       /\ lastAns.email \in DOMAIN otpStore
       /\ \E c \in GeneratedCodes :
              verifyRoute("/verify-otp", otpStore, lastAns.email, c, now, TRUE).reply
                = SignedIn

\* C24: of two POST /verify-otp requests of email-otp.js in flight at once
\* with the same email and the stored code, the one that arrives while the
\* other waits at its await, its code accepted, is answered not-found (no
\* code having been stored in between); it never joins the first at the
\* await, so the two never both succeed.
C24_OneOfTwoConsumes ==
    /\ \A r \in inflight : r.pc = "lookup" => ~r.raced
    /\ (lastAns.route = "/verify-otp" /\ lastAns.again)
       => lastAns.reply = Reply(400, "not_found")

\* the second request was answered not-found while the first, whose code was
\* accepted, is still waiting
C24_Witness ==
    /\ lastAns.route = "/verify-otp"
    /\ lastAns.again
    /\ lastAns.reply = Reply(400, "not_found")
    /\ \E c \in GeneratedCodes : Racing(inflight, lastAns.email, c)

\* C34: a verify request whose submitted code is not exactly six decimal
\* digits is answered 400 by its route without verifyOTP being called: the
\* OTP store, the attempts counter of the record included, is left as it was.
C34_MalformedCodeRejected ==
    (lastAns.route \in UNION {VerifyRoutes(a) : a \in AccountApps} /\ lastAns.malformed)
    => (lastAns.reply = BadRequest /\ ~lastAns.touched)

\* a malformed code was turned away while a record with attempts left is
\* stored for the email
C34_Witness ==
    /\ lastAns.route \in UNION {VerifyRoutes(a) : a \in AccountApps}
    /\ lastAns.malformed
    /\ lastAns.reply = BadRequest
    /\ lastAns.email \in DOMAIN otpStore
    /\ otpStore[lastAns.email].attempts < MAX_OTP_ATTEMPTS

\* C20: a complete-password-reset route changes the password only when the
\* record verifyOTP accepted carries the password-reset tag of its router.
C20_ResetNeedsResetPurpose ==
    lastAns.passwordChanged => lastAns.purpose = ResetTag(app)

====
